---------------------------- MODULE Spec2Model ----------------------------
(***************************************************************************)
(* A model of the fantasy-football roster pipeline: the field inference    *)
(* of src/modules/dump_teams.py (name/team/position split, roster status), *)
(* the canonicalizers of src/transformers, the source dispatchers of       *)
(* src/fantasy_football_manager and the batch operations of its core_data  *)
(* and actions/dump_teams.                                                 *)
(*                                                                         *)
(* Texts are sequences of one-character strings, so that the substring,    *)
(* replace, strip and upper-case operations of the code are computed and   *)
(* not assumed.  None and "key absent" are one-element sequences whose     *)
(* element is not a single character, so they differ from every text.      *)
(***************************************************************************)
EXTENDS Integers, Sequences, FiniteSets, TLC

VARIABLES
    \* roster status inference (determine_player_status)
    player_data, player_index, total_players, roster_status,
    \* a second call for the same row (determine_player_status)
    repeat_data, repeat_total, repeat_status,
    \* name/team/position split (parse_player_name)
    full_text, parsed, resplit,
    \* canonicalizer (transformers.to_canonical_roster)
    canon_source, raw_data, canonical_data, canon_outcome,
    \* dispatchers and batch operations (sources, core_data, actions)
    op, source, team_ids, pc, cursor, attempted, all_players, failed_teams,
    rosters, files, displayed, raised, result, filename, flags, calls,
    \* page extractors (_extract_team_data_from_page, extract_team_data_from_page)
    extractor, document, extracted,
    \* the free-agent listing (list_free_agents_command, get_players)
    args, agents_page, listed, list_pc,
    \* the browser of a roster fetch (sources.espn.fetch_roster, fetch_team_data)
    fetcher, session, fetch_total, fetch_no, fetch_step, open_browsers,
    open_pages, fetch_outcomes,
    \* a CSV export read back (export_team_to_csv, csv.DictReader)
    csv_team, csv_text, csv_reader, csv_pos, csv_read, csv_pc

statusVars == <<player_data, player_index, total_players, roster_status,
                 repeat_data, repeat_total, repeat_status>>
splitVars  == <<full_text, parsed, resplit>>
canonVars  == <<canon_source, raw_data, canonical_data, canon_outcome>>
batchVars  == <<op, source, team_ids, pc, cursor, attempted, all_players,
                failed_teams, rosters, files, displayed, raised, result,
                filename, flags, calls>>
pageVars   == <<extractor, document, extracted>>
listVars   == <<args, agents_page, listed, list_pc>>
fetchVars  == <<fetcher, session, fetch_total, fetch_no, fetch_step,
                open_browsers, open_pages, fetch_outcomes>>
csvVars    == <<csv_team, csv_text, csv_reader, csv_pos, csv_read, csv_pc>>
vars == <<statusVars, splitVars, canonVars, batchVars, pageVars, listVars, fetchVars, csvVars>>

---------------------------------------------------------------------------
(* Values                                                                  *)

None   == <<"None">>      \* Python's None
Absent == <<"Absent">>    \* the key is not in the dict
NotRun == <<"NotRun">>    \* the operation has not produced a result yet

\* a roster value that is None: its fields are not read
NoData == [is_none |-> TRUE, source |-> "", manager_name |-> <<>>, players |-> <<>>]

\* what an operation returned: None, a path, a list, a roster
NoResult == [kind |-> "pending", text |-> <<>>, items |-> <<>>, data |-> NoData]

\* the flags of a command: --all and --unified-csv not given
NoFlags == [all |-> FALSE, unified_csv |-> FALSE]

\* an int-or-None or float-or-None value: None, and the number n
NoNumber  == [none |-> TRUE, value |-> 0]
Number(n) == [none |-> FALSE, value |-> n]

\* the arguments of list-free-agents with no option given
NoArgs == [position |-> None, status |-> None, team |-> None, limit |-> NoNumber]

\* no page fetched for the listing
NoFetch == [fetch |-> "none", kind |-> "None", players |-> <<>>]

\* the CSV reader before its first character
ReaderStart == [state |-> "start_record", field |-> <<>>, row |-> <<>>, rows |-> <<>>]

\* no split made yet
NoSplit == [name |-> NotRun, team |-> NotRun, position |-> NotRun]

LowerAlpha == <<"a","b","c","d","e","f","g","h","i","j","k","l","m",
                "n","o","p","q","r","s","t","u","v","w","x","y","z">>
UpperAlpha == <<"A","B","C","D","E","F","G","H","I","J","K","L","M",
                "N","O","P","Q","R","S","T","U","V","W","X","Y","Z">>
Digits     == <<"0","1","2","3","4","5","6","7","8","9">>

Range(f) == {f[i] : i \in DOMAIN f}

IsSpace(c) == c \in {" ", "\t", "\n", "\r"}
IsUpper(c) == c \in Range(UpperAlpha)
IsDigit(c) == c \in Range(Digits)

\* str.upper() on one character
UpperChar(c) ==
    IF c \in Range(LowerAlpha)
    THEN UpperAlpha[CHOOSE i \in DOMAIN LowerAlpha : LowerAlpha[i] = c]
    ELSE c

\* str.upper()
Upper(s) == [i \in DOMAIN s |-> UpperChar(s[i])]

RECURSIVE LStrip(_)
LStrip(s) ==
    IF s = <<>> THEN s
    ELSE IF IsSpace(Head(s)) THEN LStrip(Tail(s)) ELSE s

RECURSIVE RStrip(_)
RStrip(s) ==
    IF s = <<>> THEN s
    ELSE IF IsSpace(s[Len(s)]) THEN RStrip(SubSeq(s, 1, Len(s) - 1)) ELSE s

\* str.strip()
Strip(s) == RStrip(LStrip(s))

\* sub in s
Contains(s, sub) ==
    \E i \in 1..(Len(s) - Len(sub) + 1) : SubSeq(s, i, i + Len(sub) - 1) = sub

\* s.startswith(pre)
StartsWith(s, pre) == Len(s) >= Len(pre) /\ SubSeq(s, 1, Len(pre)) = pre

\* s.replace(sub, ''): every non-overlapping occurrence, scanning from the left
RECURSIVE Replace(_, _)
Replace(s, sub) ==
    IF sub = <<>> \/ Len(s) < Len(sub) THEN s
    ELSE IF SubSeq(s, 1, Len(sub)) = sub
         THEN Replace(SubSeq(s, Len(sub) + 1, Len(s)), sub)
         ELSE <<Head(s)>> \o Replace(Tail(s), sub)

\* dict.get(k, default)
Get(d, k, default) == IF k \in DOMAIN d THEN d[k] ELSE default

\* the dict holding the given (key, value) pairs, a value Absent leaving its key out
MkDict(pairs) ==
    [k \in {p[1] : p \in {q \in pairs : q[2] /= Absent}} |->
        (CHOOSE p \in pairs : p[1] = k)[2]]

IsText(v) == v \notin {None, Absent, NotRun}

\* truth value of a str-or-None
Truthy(v) == v /= None /\ v /= <<>>

---------------------------------------------------------------------------
(* float(x) on the decimal literals: optional surrounding whitespace, an   *)
(* optional sign, digits with an optional fraction.  The value is          *)
(* (-1)^neg * mant / 10^scale; ok = FALSE is ValueError or TypeError.      *)

RECURSIVE DigitsValue(_)
DigitsValue(s) ==
    IF s = <<>> THEN 0
    ELSE 10 * DigitsValue(SubSeq(s, 1, Len(s) - 1))
         + (CHOOSE i \in DOMAIN Digits : Digits[i] = s[Len(s)]) - 1

AllDigits(s) == \A i \in DOMAIN s : IsDigit(s[i])

RECURSIVE Pow10(_)
Pow10(n) == IF n = 0 THEN 1 ELSE 10 * Pow10(n - 1)

FloatFail == [ok |-> FALSE, neg |-> FALSE, mant |-> 0, scale |-> 0]

Float(x) ==
    IF ~IsText(x) THEN FloatFail
    ELSE
      LET t    == Strip(x)
          sgn  == t /= <<>> /\ Head(t) \in {"+", "-"}
          body == IF sgn THEN Tail(t) ELSE t
          dots == {i \in DOMAIN body : body[i] = "."}
          ip   == IF dots = {} THEN body
                  ELSE SubSeq(body, 1, (CHOOSE i \in dots : TRUE) - 1)
          fp   == IF dots = {} THEN <<>>
                  ELSE SubSeq(body, (CHOOSE i \in dots : TRUE) + 1, Len(body))
      IN  IF /\ Cardinality(dots) <= 1
             /\ AllDigits(ip) /\ AllDigits(fp)
             /\ Len(ip) + Len(fp) >= 1
          THEN [ok    |-> TRUE,
                neg   |-> sgn /\ Head(t) = "-",
                mant  |-> DigitsValue(ip \o fp),
                scale |-> Len(fp)]
          ELSE FloatFail

\* f == 0.0
FloatIsZero(f) == f.mant = 0

\* f < n, n a natural number
FloatLess(f, n) == (f.neg /\ f.mant > 0) \/ f.mant < n * Pow10(f.scale)

---------------------------------------------------------------------------
(* Texts of the program                                                    *)

T_IR      == <<"I","R">>
T_BE      == <<"B","E">>
T_INJURED == <<"I","N","J","U","R","E","D">>
T_OUT     == <<"O","U","T">>
T_QB      == <<"Q","B">>
T_RB      == <<"R","B">>
T_WR      == <<"W","R">>
T_TE      == <<"T","E">>
T_K       == <<"K">>
T_DST     == <<"D","/","S","T">>
T_FLEX    == <<"F","L","E","X">>
T_Bench   == <<"B","e","n","c","h">>
T_Zero    == <<"0">>

\* ['QB', 'RB', 'WR', 'TE', 'K', 'D/ST']
SkillPositions == {T_QB, T_RB, T_WR, T_TE, T_K, T_DST}
\* ['Bench', 'FLEX']
BenchPositions == {T_Bench, T_FLEX}

\* player_index < 10: the first ten rows are the starters
StarterSlots == 10
\* start_pct < 50.0
StartPctThreshold == 50


---------------------------------------------------------------------------
(* Roster status inference: src/modules/dump_teams.py determine_player_status *)

\* the same function with the first-ten test off by one (index 10 a starter)
determine_player_status_off_by_one(pd, idx, total) ==
    LET position   == Strip(Get(pd, "Position", <<>>))
        status     == Strip(Get(pd, "Status", <<>>))
        proj_pts   == Float(Get(pd, "Projected Points", T_Zero))
        start_pct  == Float(Get(pd, "Start %", T_Zero))
    IN  IF \/ Contains(Upper(status), T_IR)
           \/ Contains(Upper(status), T_INJURED)
           \/ Contains(Upper(status), T_OUT)
        THEN T_IR
        ELSE IF proj_pts.ok /\ FloatIsZero(proj_pts) /\ position \in SkillPositions
        THEN T_IR
        ELSE IF position \in BenchPositions THEN T_BE
        ELSE IF idx <= StarterSlots /\ position \in SkillPositions THEN position
        ELSE IF idx >= StarterSlots THEN T_BE
        ELSE IF start_pct.ok /\ FloatLess(start_pct, StartPctThreshold)
                /\ position \in SkillPositions
        THEN T_BE
        ELSE IF position \in SkillPositions THEN position
        ELSE T_BE

\* the same function with the row-index rules tried before the projected-points rule
determine_player_status_index_first(pd, idx, total) ==
    LET position   == Strip(Get(pd, "Position", <<>>))
        status     == Strip(Get(pd, "Status", <<>>))
        proj_pts   == Float(Get(pd, "Projected Points", T_Zero))
    IN  IF \/ Contains(Upper(status), T_IR)
           \/ Contains(Upper(status), T_INJURED)
           \/ Contains(Upper(status), T_OUT)
        THEN T_IR
        ELSE IF position \in BenchPositions THEN T_BE
        ELSE IF idx < StarterSlots /\ position \in SkillPositions THEN position
        ELSE IF idx >= StarterSlots THEN T_BE
        ELSE IF proj_pts.ok /\ FloatIsZero(proj_pts) /\ position \in SkillPositions
        THEN T_IR
        ELSE T_BE

\* the same function with the start-% and position rules tried before the
\* row-index rule for the rows after the tenth
determine_player_status_start_pct_first(pd, idx, total) ==
    LET position   == Strip(Get(pd, "Position", <<>>))
        status     == Strip(Get(pd, "Status", <<>>))
        proj_pts   == Float(Get(pd, "Projected Points", T_Zero))
        start_pct  == Float(Get(pd, "Start %", T_Zero))
    IN  IF \/ Contains(Upper(status), T_IR)
           \/ Contains(Upper(status), T_INJURED)
           \/ Contains(Upper(status), T_OUT)
        THEN T_IR
        ELSE IF proj_pts.ok /\ FloatIsZero(proj_pts) /\ position \in SkillPositions
        THEN T_IR
        ELSE IF position \in BenchPositions THEN T_BE
        ELSE IF idx < StarterSlots /\ position \in SkillPositions THEN position
        ELSE IF start_pct.ok /\ FloatLess(start_pct, StartPctThreshold)
                /\ position \in SkillPositions
        THEN T_BE
        ELSE IF position \in SkillPositions THEN position
        ELSE T_BE

\* float(x) with a value that does not parse read as 0
FloatOrZero(x) ==
    IF Float(x).ok THEN Float(x) ELSE [ok |-> TRUE, neg |-> FALSE, mant |-> 0, scale |-> 0]

\* the same function with an unparseable number read as 0 instead of skipped
determine_player_status_unparsed_is_zero(pd, idx, total) ==
    LET position   == Strip(Get(pd, "Position", <<>>))
        status     == Strip(Get(pd, "Status", <<>>))
        proj_pts   == FloatOrZero(Get(pd, "Projected Points", T_Zero))
        start_pct  == FloatOrZero(Get(pd, "Start %", T_Zero))
    IN  IF \/ Contains(Upper(status), T_IR)
           \/ Contains(Upper(status), T_INJURED)
           \/ Contains(Upper(status), T_OUT)
        THEN T_IR
        ELSE IF FloatIsZero(proj_pts) /\ position \in SkillPositions
        THEN T_IR
        ELSE IF position \in BenchPositions THEN T_BE
        ELSE IF idx < StarterSlots /\ position \in SkillPositions THEN position
        ELSE IF idx >= StarterSlots THEN T_BE
        ELSE IF FloatLess(start_pct, StartPctThreshold) /\ position \in SkillPositions
        THEN T_BE
        ELSE IF position \in SkillPositions THEN position
        ELSE T_BE

\* the same function with the last row of the table always on the bench
determine_player_status_last_row_bench(pd, idx, total) ==
    LET position   == Strip(Get(pd, "Position", <<>>))
        status     == Strip(Get(pd, "Status", <<>>))
        proj_pts   == Float(Get(pd, "Projected Points", T_Zero))
        start_pct  == Float(Get(pd, "Start %", T_Zero))
    IN  IF \/ Contains(Upper(status), T_IR)
           \/ Contains(Upper(status), T_INJURED)
           \/ Contains(Upper(status), T_OUT)
        THEN T_IR
        ELSE IF proj_pts.ok /\ FloatIsZero(proj_pts) /\ position \in SkillPositions
        THEN T_IR
        ELSE IF position \in BenchPositions THEN T_BE
        ELSE IF idx = total - 1 THEN T_BE
        ELSE IF idx < StarterSlots /\ position \in SkillPositions THEN position
        ELSE IF idx >= StarterSlots THEN T_BE
        ELSE IF start_pct.ok /\ FloatLess(start_pct, StartPctThreshold)
                /\ position \in SkillPositions
        THEN T_BE
        ELSE IF position \in SkillPositions THEN position
        ELSE T_BE

\* the same function with the start-% rule tried before the row-index rules
determine_player_status_start_pct_live(pd, idx, total) ==
    LET position         == Strip(Get(pd, "Position", <<>>))
        status           == Strip(Get(pd, "Status", <<>>))
        projected_points == Get(pd, "Projected Points", T_Zero)
        start_percent    == Get(pd, "Start %", T_Zero)
        proj_pts         == Float(projected_points)
        start_pct        == Float(start_percent)
    IN  IF \/ Contains(Upper(status), T_IR)
           \/ Contains(Upper(status), T_INJURED)
           \/ Contains(Upper(status), T_OUT)
        THEN T_IR
        ELSE IF proj_pts.ok /\ FloatIsZero(proj_pts) /\ position \in SkillPositions
        THEN T_IR
        ELSE IF position \in BenchPositions THEN T_BE
        ELSE IF start_pct.ok /\ FloatLess(start_pct, StartPctThreshold)
                /\ position \in SkillPositions
        THEN T_BE
        ELSE IF idx < StarterSlots /\ position \in SkillPositions THEN position
        ELSE IF idx >= StarterSlots THEN T_BE
        ELSE IF position \in SkillPositions THEN position
        ELSE T_BE

determine_player_status(pd, idx, total) ==
    LET position         == Strip(Get(pd, "Position", <<>>))
        status           == Strip(Get(pd, "Status", <<>>))
        projected_points == Get(pd, "Projected Points", T_Zero)
        start_percent    == Get(pd, "Start %", T_Zero)
        \* try: float(...) except (ValueError, TypeError): pass
        proj_pts         == Float(projected_points)
        start_pct        == Float(start_percent)
    IN  IF \/ Contains(Upper(status), T_IR)
           \/ Contains(Upper(status), T_INJURED)
           \/ Contains(Upper(status), T_OUT)
        THEN T_IR
        ELSE IF proj_pts.ok /\ FloatIsZero(proj_pts) /\ position \in SkillPositions
        THEN T_IR
        ELSE IF position \in BenchPositions THEN T_BE
        ELSE IF idx < StarterSlots /\ position \in SkillPositions THEN position
        ELSE IF idx >= StarterSlots THEN T_BE
        ELSE IF start_pct.ok /\ FloatLess(start_pct, StartPctThreshold)
                /\ position \in SkillPositions
        THEN T_BE
        ELSE IF position \in SkillPositions THEN position
        ELSE T_BE

\* largest row index drawn
MaxIndex == 11

StatusTexts ==
    { Absent, <<>>, <<"Q">>, T_IR, <<"o","u","t">>,
      <<"I","n","j","u","r","e","d">> }
ProjectedTexts ==
    { Absent, None, <<>>, <<"-","-">>, <<"0",".","0">>, T_Zero,
      <<"-","0",".","0">>, <<"1","2",".","5">> }
PositionTexts ==
    { Absent, <<>>, T_QB, T_RB, T_WR, T_TE, T_K, T_DST, T_FLEX, T_Bench, T_IR,
      <<" ","W","R">> }
StartPctTexts ==
    { Absent, <<>>, <<"8","0">>, <<"4","9",".","9">>, <<"-","-">> }

StatusIdle ==
    /\ player_data = MkDict({})
    /\ player_index = 0
    /\ total_players = 0
    /\ roster_status = NotRun
    /\ repeat_data = MkDict({})
    /\ repeat_total = 0
    /\ repeat_status = NotRun

SplitIdle ==
    /\ full_text = <<>>
    /\ parsed = NoSplit
    /\ resplit = NoSplit

CanonIdle ==
    /\ canon_source = "espn"
    /\ raw_data = NoData
    /\ canonical_data = NoData
    /\ canon_outcome = "pending"

BatchIdle ==
    /\ op = "none"
    /\ source = "espn"
    /\ team_ids = <<>>
    /\ pc = "idle"
    /\ cursor = 0
    /\ attempted = <<>>
    /\ all_players = <<>>
    /\ failed_teams = <<>>
    /\ rosters = <<>>
    /\ files = <<>>
    /\ displayed = <<>>
    /\ raised = "none"
    /\ result = NoResult
    /\ filename = None
    /\ flags = NoFlags
    /\ calls = <<>>

\* no document given to an extractor
NoDocument == [structure |-> "none", week3 |-> FALSE, rows |-> <<>>]
NoExtract  == [outcome |-> "pending", players |-> <<>>]

PageIdle ==
    /\ extractor = "none"
    /\ document = NoDocument
    /\ extracted = NoExtract

ListIdle ==
    /\ args = NoArgs
    /\ agents_page = NoFetch
    /\ listed = <<>>
    /\ list_pc = "idle"

FetchIdle ==
    /\ fetcher = "none"
    /\ session = FALSE
    /\ fetch_total = 0
    /\ fetch_no = 0
    /\ fetch_step = "idle"
    /\ open_browsers = {}
    /\ open_pages = {}
    /\ fetch_outcomes = <<>>

CsvIdle ==
    /\ csv_team = NoData
    /\ csv_text = <<>>
    /\ csv_reader = ReaderStart
    /\ csv_pos = 0
    /\ csv_read = <<>>
    /\ csv_pc = "idle"

\* a parsed row and its position among the accepted rows of a page
StatusInit ==
    /\ \E st \in StatusTexts, pp \in ProjectedTexts,
          pos \in PositionTexts, sp \in StartPctTexts :
          player_data = MkDict({ <<"Status", st>>, <<"Projected Points", pp>>,
                                 <<"Position", pos>>, <<"Start %", sp>> })
    /\ player_index \in {0, StarterSlots - 1, StarterSlots, StarterSlots + 1, MaxIndex}
    /\ total_players \in {player_index + 1, MaxIndex + 1}
    /\ roster_status = NotRun
    /\ repeat_data = MkDict({})
    /\ repeat_total = 0
    /\ repeat_status = NotRun
    /\ SplitIdle /\ CanonIdle /\ BatchIdle /\ PageIdle /\ ListIdle /\ FetchIdle /\ CsvIdle

\* status = determine_player_status(player_data, len(players), len(rows))
DetermineStatus ==
    /\ roster_status = NotRun
    /\ roster_status' = determine_player_status(player_data, player_index, total_players)
    /\ UNCHANGED <<player_data, player_index, total_players,
                   repeat_data, repeat_total, repeat_status>>
    /\ UNCHANGED <<splitVars, canonVars, batchVars, pageVars, listVars, fetchVars, csvVars>>

StatusNext == DetermineStatus

SpecStatus == StatusInit /\ [][StatusNext]_vars

---------------------------------------------------------------------------
(* Claims about roster status inference                                    *)

\* the inputs as the function reads them
InStatus    == Upper(Strip(Get(player_data, "Status", <<>>)))
InProjected == Float(Get(player_data, "Projected Points", T_Zero))
InPosition  == Strip(Get(player_data, "Position", <<>>))
InStartPct  == Float(Get(player_data, "Start %", T_Zero))

\* rules (a)..(h) as <<condition, result>>
StatusRules ==
    << <<Contains(InStatus, T_IR) \/ Contains(InStatus, T_INJURED)
            \/ Contains(InStatus, T_OUT), T_IR>>,
       <<InProjected.ok /\ FloatIsZero(InProjected)
            /\ InPosition \in SkillPositions, T_IR>>,
       <<InPosition \in BenchPositions, T_BE>>,
       <<player_index < StarterSlots /\ InPosition \in SkillPositions, InPosition>>,
       <<player_index >= StarterSlots, T_BE>>,
       <<InStartPct.ok /\ FloatLess(InStartPct, StartPctThreshold)
            /\ InPosition \in SkillPositions, T_BE>>,
       <<InPosition \in SkillPositions, InPosition>>,
       <<TRUE, T_BE>> >>

FirstMatchingRule ==
    CHOOSE i \in DOMAIN StatusRules :
        StatusRules[i][1] /\ \A j \in 1..(i - 1) : ~StatusRules[j][1]

\* C1: the status returned is the result of the first rule, in the order
\* (a) status text contains IR/INJURED/OUT, (b) projected points 0.0 and a
\* skill position, (c) Bench/FLEX, (d) row index < 10 and a skill position,
\* (e) row index >= 10, (f) start % < 50 and a skill position, (g) a skill
\* position, (h) otherwise, whose condition holds of the inputs.
C1_FirstMatchingRuleWins ==
    roster_status /= NotRun => roster_status = StatusRules[FirstMatchingRule][2]

\* C1 witness: a row decided by rule (e) although rules (f) and (g) match too
C1_Witness ==
    /\ roster_status = T_BE
    /\ FirstMatchingRule = 5
    /\ StatusRules[6][1] /\ StatusRules[7][1]

\* C10: projected points "0.0" with a position of {QB,RB,WR,TE,K,D/ST} give
\* status IR, whatever the row index, the start % and the status text.
C10_ZeroProjectionIsIR ==
    ( /\ roster_status /= NotRun
      /\ Get(player_data, "Projected Points", Absent) = <<"0",".","0">>
      /\ Get(player_data, "Position", Absent) \in SkillPositions )
    => roster_status = T_IR

\* C10 witness: an RB projected 0.0 on row 11 with start % 80 and no status text
C10_Witness ==
    /\ roster_status = T_IR
    /\ Get(player_data, "Projected Points", Absent) = <<"0",".","0">>
    /\ Get(player_data, "Position", Absent) = T_RB
    /\ Get(player_data, "Start %", Absent) = <<"8","0">>
    /\ Get(player_data, "Status", Absent) = <<>>
    /\ player_index = MaxIndex

\* C11: at a row index >= 10, when the status text does not match rule (a)
\* and the projected points do not match rule (b), the status is BE whatever
\* the start % and the position: the index rule decides before the start-%
\* rule is consulted (scenario C: row 11, WR, start % 80).
C11_IndexRuleBeforeStartPct ==
    ( /\ roster_status /= NotRun
      /\ player_index >= StarterSlots
      /\ ~StatusRules[1][1]
      /\ ~StatusRules[2][1] )
    => roster_status = T_BE

\* C11 witness (scenario C): row 11, position WR, start % 80, projected 12.5,
\* no status text, status BE
C11_Witness ==
    /\ roster_status = T_BE
    /\ player_index = 11
    /\ Get(player_data, "Position", Absent) = T_WR
    /\ Get(player_data, "Start %", Absent) = <<"8","0">>
    /\ Get(player_data, "Projected Points", Absent) = <<"1","2",".","5">>
    /\ Get(player_data, "Status", Absent) = <<>>

\* values of a cell that float() rejects: None, the empty text, "--"
Unparseable == {None, <<>>, <<"-","-">>}

\* the record with one field replaced
With(pd, k, v) == [x \in DOMAIN pd \cup {k} |-> IF x = k THEN v ELSE pd[x]]

\* the values determine_player_status can return
StatusValues == {T_IR, T_BE} \cup SkillPositions

\* C12: a projected-points or start-% value that is not a number never
\* raises and never decides the status: a status is returned, and it is the
\* status of the same row with a number in that field that its rule does not
\* match (projected 12.5, start % 80), i.e. the rule is skipped.
C12_UnparseableNumberSkipsRule ==
    roster_status /= NotRun =>
        /\ roster_status \in StatusValues
        /\ Get(player_data, "Projected Points", T_Zero) \in Unparseable
           => roster_status =
                 determine_player_status(
                     With(player_data, "Projected Points", <<"1","2",".","5">>),
                     player_index, total_players)
        /\ Get(player_data, "Start %", T_Zero) \in Unparseable
           => roster_status =
                 determine_player_status(
                     With(player_data, "Start %", <<"8","0">>),
                     player_index, total_players)

\* C12 witness: a WR on the first row whose projected points and start % are
\* both "--" is a starter (WR), not IR
C12_Witness ==
    /\ roster_status = T_WR
    /\ player_index = 0
    /\ Get(player_data, "Projected Points", Absent) = <<"-","-">>
    /\ Get(player_data, "Start %", Absent) = <<"-","-">>
    /\ Get(player_data, "Status", Absent) = <<>>

---------------------------------------------------------------------------
(* Two calls of determine_player_status for the same row                   *)

\* the fields of a row that the status rules do not use
OtherFields ==
    { {},
      { <<"Player Name", <<"J","o","e">>>> },
      { <<"Player Name", <<"A","l">>>>, <<"Opponent", <<"K","C">>>>, <<"Rank", T_Zero>> } }

\* rows for the second call: a few values of each of the five inputs
RepeatStatusTexts    == { Absent, <<>>, T_IR }
RepeatProjectedTexts == { Absent, <<"-","-">>, <<"1","2",".","5">> }
RepeatPositionTexts  == { <<>>, T_WR, T_K, T_FLEX }
RepeatStartPctTexts  == { Absent, <<"8","0">>, <<"4","9",".","9">> }

\* two records with the same status text, projected points and position,
\* each with its own start % and its own other fields, and two table sizes
RepeatInit ==
    /\ \E st \in RepeatStatusTexts, pp \in RepeatProjectedTexts,
          pos \in RepeatPositionTexts,
          sp1 \in RepeatStartPctTexts, sp2 \in RepeatStartPctTexts,
          o1 \in OtherFields, o2 \in OtherFields :
          LET same == { <<"Status", st>>, <<"Projected Points", pp>>,
                        <<"Position", pos>> }
          IN  /\ player_data = MkDict(same \cup {<<"Start %", sp1>>} \cup o1)
              /\ repeat_data = MkDict(same \cup {<<"Start %", sp2>>} \cup o2)
    /\ player_index \in {0, StarterSlots - 1, StarterSlots, MaxIndex}
    /\ total_players \in {player_index + 1, MaxIndex + 1}
    /\ repeat_total \in {player_index + 1, MaxIndex + 1}
    /\ roster_status = NotRun
    /\ repeat_status = NotRun
    /\ SplitIdle /\ CanonIdle /\ BatchIdle /\ PageIdle /\ ListIdle /\ FetchIdle /\ CsvIdle

\* the second call, after the first
DetermineAgain ==
    /\ roster_status /= NotRun
    /\ repeat_status = NotRun
    /\ repeat_status' = determine_player_status(repeat_data, player_index, repeat_total)
    /\ UNCHANGED <<player_data, player_index, total_players, roster_status,
                   repeat_data, repeat_total>>
    /\ UNCHANGED <<splitVars, canonVars, batchVars, pageVars, listVars, fetchVars, csvVars>>

RepeatNext == DetermineStatus \/ DetermineAgain

SpecRepeat == RepeatInit /\ [][RepeatNext]_vars

\* the five inputs of a call, as the function reads them from the record
FiveInputs(pd) ==
    << Get(pd, "Status", <<>>), Get(pd, "Projected Points", T_Zero),
       Get(pd, "Position", <<>>), Get(pd, "Start %", T_Zero) >>

\* C13: two calls with the same status text, projected points, position,
\* row index and start % return the same status, whatever the other fields
\* of the two records, the two table sizes, and the earlier call.
C13_StatusIsPure ==
    ( /\ repeat_status /= NotRun
      /\ FiveInputs(player_data) = FiveInputs(repeat_data) )
    => repeat_status = roster_status

\* C13 witness: a second call with another table size and other fields in
\* the record, for a skill position on the last row of the first call's table
C13_Witness ==
    /\ repeat_status /= NotRun
    /\ repeat_status = roster_status
    /\ FiveInputs(player_data) = FiveInputs(repeat_data)
    /\ Get(player_data, "Position", Absent) = T_WR
    /\ player_index = total_players - 1
    /\ repeat_total /= total_players
    /\ DOMAIN repeat_data /= DOMAIN player_data

\* the inputs of the status besides the start %
InputsBesidesStartPct(pd) ==
    << Get(pd, "Status", <<>>), Get(pd, "Projected Points", T_Zero),
       Get(pd, "Position", <<>>) >>

\* C27: the status does not depend on the start %: two rows at the same
\* index that differ only in their start % (and in fields the function does
\* not read) get the same status.
C27_StartPctNeverDecides ==
    ( /\ repeat_status /= NotRun
      /\ InputsBesidesStartPct(player_data) = InputsBesidesStartPct(repeat_data) )
    => repeat_status = roster_status

\* C27 witness: a starter row with start % 80 and the same row with 49.9
C27_Witness ==
    /\ repeat_status /= NotRun
    /\ Get(player_data, "Start %", T_Zero) = <<"8","0">>
    /\ Get(repeat_data, "Start %", T_Zero) = <<"4","9",".","9">>
    /\ Get(player_data, "Position", <<>>) = T_WR
    /\ Get(player_data, "Projected Points", T_Zero) = <<"1","2",".","5">>
    /\ Get(player_data, "Status", <<>>) = <<>>
    /\ player_index = 0
    /\ roster_status = T_WR /\ repeat_status = T_WR

---------------------------------------------------------------------------
(* Name/team/position split: src/modules/dump_teams.py parse_player_name   *)

T_MOVE   == <<"M","O","V","E">>
T_TOTALS == <<"T","O","T","A","L","S">>
T_KC     == <<"K","C">>
T_Chi    == <<"C","h","i">>

\* clean_teams
clean_teams ==
    <<
       <<"A","r","i">>, <<"A","t","l">>, <<"B","a","l">>,
       <<"B","u","f">>, <<"C","a","r">>, <<"C","h","i">>,
       <<"C","i","n">>, <<"C","l","e">>, <<"D","a","l">>,
       <<"D","e","n">>, <<"D","e","t">>, <<"G","B">>,
       <<"H","o","u">>, <<"I","n","d">>, <<"J","a","x">>,
       <<"K","C">>, <<"L","V">>, <<"L","A","C">>,
       <<"L","A","R">>, <<"M","i","a">>, <<"M","i","n">>,
       <<"N","E">>, <<"N","O">>, <<"N","Y","G">>,
       <<"N","Y","J">>, <<"P","h","i">>, <<"P","i","t">>,
       <<"S","F">>, <<"S","e","a">>, <<"T","B">>,
       <<"T","e","n">>, <<"W","a","s">>, <<"W","s","h">>
    >>

\* positions
positions ==
    << T_QB, T_RB, T_WR, T_TE, T_K, T_DST, T_FLEX, T_Bench, T_IR >>

\* a loop without its break: the last entry of the list found in the text
RECURSIVE LastMatch(_, _)
LastMatch(list, text) ==
    IF list = <<>> THEN <<>>
    ELSE IF Contains(text, list[Len(list)]) THEN list[Len(list)]
    ELSE LastMatch(SubSeq(list, 1, Len(list) - 1), text)

\* for x in list: if x in text: found = x; break   (found = '' before the loop)
RECURSIVE FirstMatch(_, _)
FirstMatch(list, text) ==
    IF list = <<>> THEN <<>>
    ELSE IF Contains(text, Head(list)) THEN Head(list)
    ELSE FirstMatch(Tail(list), text)

\* while name and name[-1].isupper() and len(name) > 1: name = name[:-1].strip()
RECURSIVE TrimTrailingUpper(_)
TrimTrailingUpper(name) ==
    IF name /= <<>> /\ IsUpper(name[Len(name)]) /\ Len(name) > 1
    THEN TrimTrailingUpper(Strip(SubSeq(name, 1, Len(name) - 1)))
    ELSE name

parse_player_name(text) ==
    IF ~Truthy(text) \/ text \in {T_MOVE, T_TOTALS, <<>>}
    THEN [name |-> text, team |-> <<>>, position |-> <<>>]
    ELSE
      LET position == FirstMatch(positions, text)
          team     == FirstMatch(clean_teams, text)
          name1    == IF team /= <<>> THEN Replace(text, team) ELSE text
          name2    == IF position /= <<>> THEN Replace(name1, position) ELSE name1
      IN  [name     |-> TrimTrailingUpper(Strip(name2)),
           team     |-> team,
           position |-> position]

\* longest text drawn over SplitAlphabet
MaxLen == 4

SplitAlphabet == {"K", "C", "R", "B", "a", " "}

RECURSIVE TextsUpTo(_)
TextsUpTo(n) ==
    IF n = 0 THEN {<<>>}
    ELSE LET shorter == TextsUpTo(n - 1)
         IN  shorter \cup {Append(t, c) : t \in shorter, c \in SplitAlphabet}

T_JSmithKCRB == <<"J","."," ","S","m","i","t","h","K","C","R","B">>
T_JSmith     == <<"J","."," ","S","m","i","t","h">>
T_ChiefsDST  == <<"C","h","i","e","f","s"," ","D","/","S","T","K","C","D","/","S","T">>

\* cell texts of the combined player-info column
SplitTexts ==
    TextsUpTo(MaxLen) \cup {T_JSmithKCRB, T_ChiefsDST, T_MOVE, T_TOTALS}

SplitInit ==
    /\ full_text \in SplitTexts
    /\ parsed = NoSplit
    /\ resplit = NoSplit
    /\ StatusIdle /\ CanonIdle /\ BatchIdle /\ PageIdle /\ ListIdle /\ FetchIdle /\ CsvIdle

\* parsed_player = parse_player_name(text)
Split ==
    /\ parsed = NoSplit
    /\ parsed' = parse_player_name(full_text)
    /\ UNCHANGED <<full_text, resplit>>
    /\ UNCHANGED <<statusVars, canonVars, batchVars, pageVars, listVars, fetchVars, csvVars>>

\* parse_player_name(name + team + position) of the split just made
Resplit ==
    /\ parsed /= NoSplit
    /\ resplit = NoSplit
    /\ resplit' = parse_player_name(parsed.name \o parsed.team \o parsed.position)
    /\ UNCHANGED <<full_text, parsed>>
    /\ UNCHANGED <<statusVars, canonVars, batchVars, pageVars, listVars, fetchVars, csvVars>>

SplitNext == Split \/ Resplit

SpecSplit == SplitInit /\ [][SplitNext]_vars

---------------------------------------------------------------------------
(* Claims about the name/team/position split                               *)

\* the entry of least index of the list that occurs in the text, '' if none does
FirstInListOrder(list, text) ==
    LET hits == {i \in DOMAIN list : Contains(text, list[i])}
    IN  IF hits = {} THEN <<>>
        ELSE list[CHOOSE i \in hits : \A j \in hits : i <= j]

\* the text with the team, then the position removed, stripped, trailing
\* uppercase letters trimmed
NameOf(text, team, position) ==
    TrimTrailingUpper(Strip(Replace(Replace(text, team), position)))

ScenarioA ==
    full_text = T_JSmithKCRB =>
        parsed = [name |-> T_JSmith, team |-> T_KC, position |-> T_RB]

\* C2 as stated: for every text the position is the first entry of the
\* position list occurring in it, the team the first entry of the team list
\* occurring in it, and the name the text with both removed and trailing
\* uppercase letters trimmed; "J. SmithKCRB" gives "J. Smith", "KC", "RB".
C2_Original ==
    parsed /= NoSplit =>
        /\ parsed.position = FirstInListOrder(positions, full_text)
        /\ parsed.team = FirstInListOrder(clean_teams, full_text)
        /\ parsed.name = NameOf(full_text, parsed.team, parsed.position)
        /\ ScenarioA

\* C2 as amended: the same, except that the sentinel texts MOVE and TOTALS
\* come back unchanged as the name (no trimming), with empty team and position.
C2_FirstMatchSplit ==
    parsed /= NoSplit =>
        /\ parsed.position = FirstInListOrder(positions, full_text)
        /\ parsed.team = FirstInListOrder(clean_teams, full_text)
        /\ parsed.name = IF full_text \in {T_MOVE, T_TOTALS}
                         THEN full_text
                         ELSE NameOf(full_text, parsed.team, parsed.position)
        /\ ScenarioA

\* C2 witness: "Chiefs D/STKCD/ST" holds the positions K and D/ST and the
\* teams Chi and KC; the split takes K and Chi, the earlier list entries.
C2_Witness ==
    /\ full_text = T_ChiefsDST
    /\ parsed /= NoSplit
    /\ parsed.position = T_K /\ Contains(full_text, T_DST)
    /\ parsed.team = T_Chi /\ Contains(full_text, T_KC)

\* C3: splitting name + team + position of a split again gives the same
\* name, team and position.
C3_SplitIdempotent ==
    resplit /= NoSplit => resplit = parsed

---------------------------------------------------------------------------
(* Page extractors: src/sources/espn.py _extract_team_data_from_page and   *)
(* src/modules/dump_teams.py extract_team_data_from_page                   *)

T_Unknown == <<"U","n","k","n","o","w","n">>
T_Joe     == <<"J","o","e">>
T_Al      == <<"A","l">>
T_Sum     == <<"S","u","m">>
T_Den     == <<"D","e","n">>
T_Bo      == <<"B","o">>
T_Proj    == <<"1","2",".","5">>

\* a <tr> of the roster table: its total-col class, whether it has cells,
\* the texts of its cells; name = Absent is a player cell without a name span
Row(flag, name, team, pos, opp) ==
    [total_col |-> flag, cells |-> TRUE, slot |-> pos, name |-> name,
     team |-> team, pos |-> pos, opponent |-> opp, projected |-> T_Proj]

R_Joe          == Row(FALSE, T_Joe, T_KC, T_QB, T_Den)
R_Al           == Row(FALSE, T_Al, T_Chi, T_RB, T_Den)
R_Totals       == Row(TRUE, T_TOTALS, <<>>, <<>>, T_TOTALS)
R_FlaggedNamed == Row(TRUE, T_Sum, <<>>, <<>>, T_Den)
R_Move         == Row(FALSE, T_MOVE, <<>>, <<>>, T_Den)
R_OppTotals    == Row(FALSE, T_Bo, T_KC, T_WR, T_TOTALS)
R_NoName       == Row(FALSE, Absent, <<>>, <<>>, <<>>)
\* markup that yields no cell at all
R_Malformed    == [Row(FALSE, Absent, <<>>, <<>>, <<>>) EXCEPT !.cells = FALSE]

RowKinds == {R_Joe, R_Al, R_Totals, R_FlaggedNamed, R_Move, R_OppTotals,
             R_NoName, R_Malformed}

\* largest number of rows in a table
MaxRows == 3

RECURSIVE RowLists(_)
RowLists(n) ==
    IF n = 0 THEN {<<>>}
    ELSE RowLists(n - 1) \cup
         {Append(l, r) : l \in {x \in RowLists(n - 1) : Len(x) = n - 1}, r \in RowKinds}

\* where the table is in the document:
\*   primary       div.Table__Scroller > table.Table > tbody.Table__TBODY,
\*                 inside the .team-page container
\*   no_team_page  the same without the .team-page container
\*   no_scroller   table.Table > tbody.Table__TBODY outside any scroller div
\*   no_tbody      div.Table__Scroller > table.Table with the rows directly in it
\*   plain_tbody   div.Table__Scroller > table.Table > tbody without a class
\*   plain_table   a table without a class, outside any scroller div
\*   none          no table
DocStructures == {"primary", "no_team_page", "no_scroller", "no_tbody",
                  "plain_tbody", "plain_table", "none"}

\* week3: the second header cell of the table reads "NFL Week 3"
Documents ==
    { [structure |-> st, week3 |-> w, rows |-> rs] :
        st \in {"primary", "no_tbody"}, w \in BOOLEAN, rs \in RowLists(MaxRows) }
    \cup
    { [structure |-> st, week3 |-> TRUE, rows |-> rs] :
        st \in DocStructures \ {"primary", "no_tbody", "none"}, rs \in RowLists(1) }
    \cup
    { [structure |-> "none", week3 |-> TRUE, rows |-> <<>>] }

\* n rows of one starter
Starters(n) == [i \in 1..n |-> R_Joe]

\* team pages as long as a real roster: the starters, then the totals row
\* or one more player, then a bench player
LongDocuments ==
    { [structure |-> "primary", week3 |-> w, rows |-> rs] :
        w \in BOOLEAN,
        rs \in { Starters(StarterSlots - 1) \o <<R_Totals, R_Al>>,
                 Starters(StarterSlots - 1) \o <<R_Joe, R_Al>>,
                 Starters(StarterSlots - 2) \o <<R_Totals, R_Al, R_Al>> } }

\* espn._parse_roster_row: {} without cells, else the cells by column index
parse_roster_row(row) ==
    IF ~row.cells THEN MkDict({})
    ELSE MkDict({ <<"Slot", row.slot>>,
                  <<"Player Name", IF row.name = Absent THEN T_Unknown ELSE row.name>>,
                  <<"Team", row.team>>,
                  <<"Position", row.pos>>,
                  <<"Opponent", row.opponent>>,
                  <<"Game Time", <<>>>>,
                  <<"Projected Points", row.projected>> })

\* the acceptance test of the loop of espn._extract_team_data_from_page
espn_accepts(row) ==
    LET player_dict == parse_roster_row(row)
    IN  /\ ~row.total_col
        /\ DOMAIN player_dict /= {}
        /\ Truthy(Get(player_dict, "Player Name", None))
        /\ Get(player_dict, "Player Name", None) /= T_Unknown
        /\ Get(player_dict, "Opponent", None) /= T_TOTALS

RECURSIVE espn_rows(_)
espn_rows(rows) ==
    IF rows = <<>> THEN <<>>
    ELSE (IF espn_accepts(Head(rows)) THEN <<parse_roster_row(Head(rows))>> ELSE <<>>)
         \o espn_rows(Tail(rows))

\* the same extractor giving up on the page at a row without cells
espn_extract_aborting_on_bad_row(doc) ==
    IF doc.structure \in {"plain_table", "none", "no_tbody", "plain_tbody"}
    THEN [outcome |-> "None", players |-> <<>>]
    ELSE IF \E i \in DOMAIN doc.rows : ~doc.rows[i].cells
    THEN [outcome |-> "None", players |-> <<>>]
    ELSE [outcome |-> "data", players |-> espn_rows(doc.rows)]

\* espn._extract_team_data_from_page(page)
espn_extract_team_data_from_page(doc) ==
    IF doc.structure \in {"plain_table", "none"}
    THEN \* table = soup.find('table', class_='Table'); if not table: return None
         [outcome |-> "None", players |-> <<>>]
    ELSE IF doc.structure \in {"no_tbody", "plain_tbody"}
    THEN \* tbody = table.find('tbody', class_='Table__TBODY'); if not tbody: return None
         [outcome |-> "None", players |-> <<>>]
    ELSE [outcome |-> "data", players |-> espn_rows(doc.rows)]

\* cell.get_text(strip=True) of the player cell: name, team and position run together
InfoText(row) == (IF row.name = Absent THEN <<>> ELSE row.name) \o row.team \o row.pos

\* the player_data dict the loop of modules extract_team_data_from_page
\* builds from the cells of a row, by the header of each column
modules_player_data(row, week3) ==
    LET text == InfoText(row)
        parsed_player == parse_player_name(text)
        info == IF week3
                THEN IF Truthy(text)
                     THEN { <<"Player Name", parsed_player.name>>,
                            <<"Team", parsed_player.team>>,
                            <<"Position", parsed_player.position>> }
                     ELSE { <<"Player_Info", text>> }
                ELSE { <<"NFL Week 4", text>> }
        \* 'STARTERS' -> 'Position', overwritten by the parsed position
        slot == IF week3 /\ Truthy(text) THEN {} ELSE { <<"Position", row.slot>> }
    IN  MkDict(slot \cup info \cup
               { <<"Action", T_MOVE>>,
                 <<"Opponent", row.opponent>>,
                 <<"Game Time", <<>>>>,
                 <<"Projected Points", row.projected>> })

\* if player_data and player_data.get('Player Name', '').strip() not in ['TOTALS', 'MOVE', '']
modules_accepts(row, week3) ==
    /\ row.cells
    /\ Strip(Get(modules_player_data(row, week3), "Player Name", <<>>))
          \notin {T_TOTALS, T_MOVE, <<>>}

\* the loop over the rows: status from the number of players accepted so far
RECURSIVE modules_rows(_, _, _, _)
modules_rows(rows, players, week3, total) ==
    IF rows = <<>> THEN players
    ELSE IF ~modules_accepts(Head(rows), week3)
    THEN modules_rows(Tail(rows), players, week3, total)
    ELSE LET player_data_ == modules_player_data(Head(rows), week3)
             status == determine_player_status(player_data_, Len(players), total)
         IN  modules_rows(Tail(rows),
                          Append(players, With(player_data_, "Roster Status", status)),
                          week3, total)

\* modules.dump_teams.extract_team_data_from_page(page): every exception,
\* the time-outs of wait_for_selector included, is printed and None returned
modules_extract_team_data_from_page(doc) ==
    IF doc.structure = "no_team_page"
    THEN \* page.wait_for_selector(".jsx-1925058086.team-page") times out
         [outcome |-> "None", players |-> <<>>]
    ELSE IF doc.structure \in {"no_scroller", "plain_table", "none"}
    THEN \* page.wait_for_selector("div.Table__Scroller table.Table") times out
         [outcome |-> "None", players |-> <<>>]
    ELSE LET \* without a tbody the rows are all <tr> of the table, the
             \* header row first, which the loop skips
             total == IF doc.structure = "no_tbody" THEN Len(doc.rows) + 1
                      ELSE Len(doc.rows)
         IN  [outcome |-> "data",
              players |-> modules_rows(doc.rows, <<>>, doc.week3, total)]

Extractors == {"espn", "modules"}

PageInit ==
    /\ extractor \in Extractors
    /\ document \in Documents \cup LongDocuments
    /\ extractor = "espn" => document.week3
    /\ extracted = NoExtract
    /\ StatusIdle /\ SplitIdle /\ CanonIdle /\ BatchIdle /\ ListIdle /\ FetchIdle /\ CsvIdle

\* team_data = _extract_team_data_from_page(page)
ExtractEspn ==
    /\ extractor = "espn" /\ extracted = NoExtract
    /\ extracted' = espn_extract_team_data_from_page(document)
    /\ UNCHANGED <<extractor, document>>
    /\ UNCHANGED <<statusVars, splitVars, canonVars, batchVars, listVars, fetchVars, csvVars>>

\* team_data = extract_team_data_from_page(page)
ExtractModules ==
    /\ extractor = "modules" /\ extracted = NoExtract
    /\ extracted' = modules_extract_team_data_from_page(document)
    /\ UNCHANGED <<extractor, document>>
    /\ UNCHANGED <<statusVars, splitVars, canonVars, batchVars, listVars, fetchVars, csvVars>>

PageNext == ExtractEspn \/ ExtractModules

SpecPage == PageInit /\ [][PageNext]_vars

---------------------------------------------------------------------------
(* Claims about the page extractors                                        *)

\* the rows C14 keeps: not flagged as a total row, and with a player name
\* that is none of TOTALS, MOVE, empty, unknown
KeptByClaim(row) ==
    /\ ~row.total_col
    /\ row.name \notin {Absent, <<>>, T_TOTALS, T_MOVE, T_Unknown}

RECURSIVE KeptNames(_)
KeptNames(rows) ==
    IF rows = <<>> THEN <<>>
    ELSE (IF KeptByClaim(Head(rows)) THEN <<Head(rows).name>> ELSE <<>>)
         \o KeptNames(Tail(rows))

ExtractedNames ==
    [i \in DOMAIN extracted.players |-> Get(extracted.players[i], "Player Name", Absent)]

\* C14: the players an extractor returns are, in document order, exactly the
\* rows of the table that are neither flagged as total rows nor yield the
\* player name TOTALS, MOVE, empty or unknown: none reordered, duplicated,
\* lost, and no rejected row among them.
C14_ExtractedIsKeptSubsequence ==
    extracted.outcome = "data" => ExtractedNames = KeptNames(document.rows)

\* C15: when the primary path (scroll container, table, body) is absent but
\* the document has some table, the extractor falls back to it and extracts
\* its rows; it reports "not found" only for a document without any table.
C15_FallsBackToAnyTable ==
    extracted.outcome /= "pending" =>
        (extracted.outcome = "None" <=> document.structure = "none")

RECURSIVE WithoutMalformed(_)
WithoutMalformed(rows) ==
    IF rows = <<>> THEN <<>>
    ELSE (IF Head(rows).cells THEN <<Head(rows)>> ELSE <<>>)
         \o WithoutMalformed(Tail(rows))

ExtractOf(e, doc) ==
    IF e = "espn" THEN espn_extract_team_data_from_page(doc)
    ELSE modules_extract_team_data_from_page(doc)

\* C16: a row that cannot be parsed (its markup yields no cell) is dropped
\* and nothing else changes: the extraction returns what it returns for the
\* same document without that row, so every other valid row is still there,
\* and it neither raises nor returns "no data" because of the bad row.
C16_BadRowOnlyDropped ==
    extracted.outcome /= "pending" =>
        /\ extracted.outcome \in {"data", "None"}
        /\ extracted = ExtractOf(extractor,
                                 [document EXCEPT !.rows = WithoutMalformed(document.rows)])

\* C16 witness: a malformed row between two valid rows of the primary table:
\* both valid rows are extracted, in order
C16_Witness ==
    /\ extractor = "espn"
    /\ document.structure = "primary"
    /\ document.rows = <<R_Joe, R_Malformed, R_Al>>
    /\ extracted.outcome = "data"
    /\ ExtractedNames = <<T_Joe, T_Al>>

---------------------------------------------------------------------------
(* Canonicalizer: src/transformers/espn_roster.py, yahoo_roster.py and     *)
(* src/fantasy_football_manager/transformers/__init__.py                   *)

\* canonical key, ESPN key read for it
EspnFieldMap ==
    <<
       <<"Player Name", "Player Name">>,
       <<"Team", "Team">>,
       <<"Position", "Position">>,
       <<"Slot", "Slot">>,
       <<"Opponent", "Opponent">>,
       <<"Game Time", "Game Time">>,
       <<"Projected Points", "Projected Points">>,
       <<"Points", "Points">>,
       <<"Avg Points", "Avg Points">>,
       <<"Last Game", "Last Game">>,
       <<"Rank", "Rank">>,
       <<"Ownership %", "Ownership %">>,
       <<"Start %", "Start %">>,
       <<"Status", "Status">>,
       <<"Trend", "Trend">>,
       <<"FPTS", "FPTS">>,
       <<"Opponent Rank", "Opponent Rank">>,
       <<"Notes", "Notes">>
    >>

\* canonical key, Yahoo key read for it
YahooFieldMap ==
    <<
       <<"Player Name", "name">>,
       <<"Team", "team">>,
       <<"Position", "position">>,
       <<"Slot", "slot">>,
       <<"Opponent", "opponent">>,
       <<"Game Time", "game_time">>,
       <<"Projected Points", "projected_points">>,
       <<"Points", "points">>,
       <<"Avg Points", "avg_points">>,
       <<"Last Game", "last_game">>,
       <<"Rank", "rank">>,
       <<"Ownership %", "ownership">>,
       <<"Start %", "start_percent">>,
       <<"Status", "status">>,
       <<"Trend", "trend">>,
       <<"FPTS", "fpts">>,
       <<"Opponent Rank", "opponent_rank">>,
       <<"Notes", "notes">>
    >>

\* the field map applied, the raw record's other keys carried over
MapFieldsKeepingRawKeys(map, player) ==
    [k \in {map[i][1] : i \in DOMAIN map} \cup DOMAIN player |->
        IF k \in {map[i][1] : i \in DOMAIN map}
        THEN Get(player, map[CHOOSE i \in DOMAIN map : map[i][1] = k][2], <<>>)
        ELSE player[k]]

\* canonical_player = { 'Player Name': player.get(source key, ''), ... }
MapFields(map, player) ==
    [k \in {map[i][1] : i \in DOMAIN map} |->
        Get(player, map[CHOOSE i \in DOMAIN map : map[i][1] = k][2], <<>>)]

\* cleaned_player[key] = str(value).strip() if value and str(value).strip() else ''
CleanValue(value) ==
    IF Truthy(value) /\ Strip(value) /= <<>> THEN Strip(value) ELSE <<>>

\* espn_roster._transform_player; kept = FALSE is the return of None
espn_transform_player(espn_player) ==
    IF DOMAIN espn_player = {} \/ ~Truthy(Get(espn_player, "Player Name", None))
    THEN [kept |-> FALSE, player |-> espn_player]
    ELSE LET canonical_player == MapFields(EspnFieldMap, espn_player)
         IN  [kept   |-> TRUE,
              player |-> [k \in DOMAIN canonical_player |->
                             CleanValue(canonical_player[k])]]

\* yahoo_roster._transform_player; kept = FALSE is the return of None
yahoo_transform_player(yahoo_player) ==
    IF DOMAIN yahoo_player = {}
    THEN [kept |-> FALSE, player |-> yahoo_player]
    ELSE [kept |-> TRUE, player |-> MapFields(YahooFieldMap, yahoo_player)]

\* for player in players: canonical_player = _transform_player(player);
\*     if canonical_player: canonical_data['players'].append(canonical_player)
RECURSIVE espn_transform_all(_)
espn_transform_all(players) ==
    IF players = <<>> THEN <<>>
    ELSE LET t == espn_transform_player(Head(players))
         IN  (IF t.kept THEN <<t.player>> ELSE <<>>)
             \o espn_transform_all(Tail(players))

RECURSIVE yahoo_transform_all(_)
yahoo_transform_all(players) ==
    IF players = <<>> THEN <<>>
    ELSE LET t == yahoo_transform_player(Head(players))
         IN  (IF t.kept THEN <<t.player>> ELSE <<>>)
             \o yahoo_transform_all(Tail(players))

\* espn_roster.to_canonical_roster
espn_to_canonical(espn_data) ==
    IF espn_data.is_none \/ espn_data.players = <<>>
    THEN [outcome |-> "None", data |-> NoData]
    ELSE [outcome |-> "data",
          data |-> [is_none      |-> FALSE,
                    source       |-> "espn",
                    manager_name |-> espn_data.manager_name,
                    players      |-> espn_transform_all(espn_data.players)]]

\* yahoo_roster.to_canonical_roster
yahoo_to_canonical(yahoo_data) ==
    IF yahoo_data.is_none
    THEN [outcome |-> "None", data |-> NoData]
    ELSE [outcome |-> "data",
          data |-> [is_none      |-> FALSE,
                    source       |-> "yahoo",
                    manager_name |-> yahoo_data.manager_name,
                    players      |-> yahoo_transform_all(yahoo_data.players)]]

\* transformers.to_canonical_roster(data, source)
to_canonical_roster(data, src) ==
    IF src = "espn" THEN espn_to_canonical(data)
    ELSE IF src = "yahoo" THEN yahoo_to_canonical(data)
    ELSE [outcome |-> "ValueError", data |-> NoData]

\* choices=['espn', 'yahoo'] and a name no dispatcher knows
KnownSources == {"espn", "yahoo"}
SourceNames  == KnownSources \cup {"sleeper"}

T_x      == <<"x">>
T_Space  == <<" ">>
T_PadX   == <<" ","x"," ">>

NameKey(src) == IF src = "yahoo" THEN "name" ELSE "Player Name"
TeamKey(src) == IF src = "yahoo" THEN "team" ELSE "Team"

\* raw player records of a source: the name and team cells absent, None,
\* empty, blank or filled, and a key that is not in the schema
RawPlayers(src) ==
    { MkDict({ <<NameKey(src), n>>, <<TeamKey(src), t>>, <<"Action", a>> }) :
        n \in {Absent, None, <<>>, T_Space, T_x, T_PadX},
        t \in {Absent, None, <<>>, T_Space, T_PadX},
        a \in {Absent, T_MOVE} }

SecondPlayers(src) ==
    { MkDict({ <<NameKey(src), T_x>>, <<TeamKey(src), T_KC>> }),
      MkDict({ <<NameKey(src), <<>> >>, <<TeamKey(src), T_Space>> }) }

RawRosters(src) ==
    {<<>>} \cup {<<p>> : p \in RawPlayers(src)}
           \cup {<<p, q>> : p \in RawPlayers(src), q \in SecondPlayers(src)}

RawData(src) ==
    {NoData} \cup
    { [is_none |-> FALSE, source |-> "", manager_name |-> T_x, players |-> ps] :
        ps \in RawRosters(src) }

\* a call of to_canonical_roster(data, source)
CanonInputs ==
    /\ canon_source \in SourceNames
    /\ raw_data \in RawData(canon_source)
    /\ canonical_data = NoData
    /\ canon_outcome = "pending"

CanonInit == CanonInputs /\ StatusIdle /\ SplitIdle /\ BatchIdle /\ PageIdle /\ ListIdle /\ FetchIdle /\ CsvIdle

\* canonical_data = to_canonical_roster(raw_data, source)
Canonicalize ==
    /\ canon_outcome = "pending"
    /\ LET r == to_canonical_roster(raw_data, canon_source)
       IN  /\ canon_outcome' = r.outcome
           /\ canonical_data' = r.data
    /\ UNCHANGED <<canon_source, raw_data>>
    /\ UNCHANGED <<statusVars, splitVars, batchVars, pageVars, listVars, fetchVars, csvVars>>

CanonNext == Canonicalize

SpecCanon == CanonInit /\ [][CanonNext]_vars

---------------------------------------------------------------------------
(* Claims about the canonicalizer                                          *)

CanonicalSchema ==
    {
      "Player Name", "Team", "Position", "Slot",
      "Opponent", "Game Time", "Projected Points", "Points",
      "Avg Points", "Last Game", "Rank", "Ownership %",
      "Start %", "Status", "Trend", "FPTS",
      "Opponent Rank", "Notes"
    }

\* C4: every record the canonicalizer produces, for 'espn' and for 'yahoo',
\* has exactly the canonical schema as its key set, whatever keys the raw
\* record had.
C4_ExactSchema ==
    canon_outcome = "data" =>
        \A i \in DOMAIN canonical_data.players :
            DOMAIN canonical_data.players[i] = CanonicalSchema

\* C4 witness: a record produced from a raw record that has a key outside
\* the schema and lacks keys of the schema
C4_Witness ==
    /\ canon_outcome = "data"
    /\ Len(canonical_data.players) = Len(raw_data.players)
    /\ \E i \in DOMAIN raw_data.players :
          /\ "Action" \in DOMAIN raw_data.players[i]
          /\ TeamKey(canon_source) \notin DOMAIN raw_data.players[i]

\* C5: in every canonical record, of 'espn' and of 'yahoo', no value is None
\* and no value is a whitespace-only text: a raw value that is absent, empty,
\* None or blank is the empty string.
C5_BlankIsEmpty ==
    canon_outcome = "data" =>
        \A i \in DOMAIN canonical_data.players :
            \A k \in CanonicalSchema :
                /\ k \in DOMAIN canonical_data.players[i]
                /\ canonical_data.players[i][k] /= None
                /\ Strip(canonical_data.players[i][k]) = <<>>
                       => canonical_data.players[i][k] = <<>>

---------------------------------------------------------------------------
(* CSV export: src/fantasy_football_manager/core_data.py                   *)

T_Manager     == <<"M","a","n","a","g","e","r">>
T_OutputDir   == <<"o","u","t","p","u","t","/">>
T_TeamPrefix  == <<"o","u","t","p","u","t","/","t","e","a","m","_">>
T_TeamSuffix  == <<"_","r","o","s","t","e","r",".","c","s","v">>
T_UnifiedPath == <<"o","u","t","p","u","t","/","l","e","a","g","u","e","_","u","n","i","f","i","e","d","_","r","o","s","t","e","r",".","c","s","v">>

\* the same rule without the test for a leading 'output/'
OutputPathAlwaysRooted(name, default) ==
    IF ~Truthy(name) THEN default
    ELSE IF /\ ~StartsWith(name, <<"/">>)
            /\ ~StartsWith(name, <<".","/">>)
            /\ ~StartsWith(name, <<".",".","/">>)
         THEN T_OutputDir \o name
         ELSE name

\* filename = default if not filename; 'output/' + filename unless it starts
\* with '/', './', '../' or 'output/'
OutputPath(name, default) ==
    IF ~Truthy(name) THEN default
    ELSE IF /\ ~StartsWith(name, <<"/">>)
            /\ ~StartsWith(name, <<".","/">>)
            /\ ~StartsWith(name, <<".",".","/">>)
            /\ ~StartsWith(name, T_OutputDir)
         THEN T_OutputDir \o name
         ELSE name

\* csv_columns
csv_columns ==
    <<
       "Manager", "Team_ID", "Player Name", "Team",
       "Position", "Roster Status", "Opponent", "Game Time",
       "Projected Points", "Points", "Avg Points", "Last Game",
       "Rank", "Ownership %", "Start %", "Status",
       "Trend", "Notes"
    >>

\* the column names that occur, in the order sorted() gives them
SortedKeys ==
    <<
       "Action", "Avg Points", "FPTS", "Game Time",
       "Last Game", "Manager", "Notes", "Opponent",
       "Opponent Rank", "Ownership %", "Player Name", "Player_Info",
       "Points", "Position", "Projected Points", "Rank",
       "Roster Status", "Slot", "Start %", "Status",
       "Team", "Team_ID", "Trend"
    >>

\* sorted(keys)
Sorted(keys) == SelectSeq(SortedKeys, LAMBDA k : k \in keys)

\* list.insert(i, x), i counted from 0
Insert(list, i, x) ==
    LET at == IF i > Len(list) THEN Len(list) ELSE i
    IN  SubSeq(list, 1, at) \o <<x>> \o SubSeq(list, at + 1, Len(list))

\* all_headers with nothing discarded
AllHeadersKeepingAction(players) ==
    UNION {DOMAIN players[i] : i \in DOMAIN players}

\* all_headers of the players, 'Action' and 'Player_Info' discarded
AllHeaders(players) ==
    UNION {DOMAIN players[i] : i \in DOMAIN players} \ {"Action", "Player_Info"}

\* the header list with Team_ID inserted before Manager
ExportHeadersTeamIdFirst(players) ==
    LET all_headers == AllHeaders(players)
        preferred   == SelectSeq(csv_columns, LAMBDA c : c \in all_headers)
        headers     == preferred \o Sorted(all_headers \ Range(csv_columns))
        withManager == IF "Manager" \notin Range(headers)
                       THEN Insert(headers, 0, "Manager") ELSE headers
    IN  IF "Team_ID" \notin Range(withManager)
        THEN Insert(withManager, 0, "Team_ID") ELSE withManager

\* the header list of a CSV export
ExportHeaders(players) ==
    LET all_headers == AllHeaders(players)
        preferred   == SelectSeq(csv_columns, LAMBDA c : c \in all_headers)
        headers     == preferred \o Sorted(all_headers \ Range(csv_columns))
        withManager == IF "Manager" \notin Range(headers)
                       THEN Insert(headers, 0, "Manager") ELSE headers
    IN  IF "Team_ID" \notin Range(withManager)
        THEN Insert(withManager, 1, "Team_ID") ELSE withManager

\* cleaned_row[header] = str(value).strip() if value is not None else ''
CleanRow(row_data, headers) ==
    [h \in Range(headers) |->
        LET value == Get(row_data, h, <<>>)
        IN  IF value = None THEN <<>> ELSE Strip(value)]

\* a player dict with Manager and Team_ID set
Tagged(player, manager, team_id) ==
    [k \in DOMAIN player \cup {"Manager", "Team_ID"} |->
        IF k = "Manager" THEN manager
        ELSE IF k = "Team_ID" THEN team_id
        ELSE player[k]]

\* manager = team_data.get('manager_name') or f"Manager{team_id}"
ManagerFor(team_data, team_id) ==
    IF Truthy(team_data.manager_name) THEN team_data.manager_name
    ELSE T_Manager \o team_id

---------------------------------------------------------------------------
(* Sources and core data access:                                           *)
(* src/fantasy_football_manager/sources/__init__.py, src/sources/espn.py,  *)
(* src/sources/yahoo.py, src/fantasy_football_manager/core_data.py         *)

\* team ids of the league; a batch takes the first n of them
TeamIdPool == << <<"1">>, <<"2">>, <<"3">>, <<"4">>, <<"5">>, <<"6">> >>

\* largest number of team ids in a batch
MaxTeams == 3

\* a row as _parse_roster_row returns it for a row with two cells
PageRow(team_id, c) ==
    [k \in {"Slot", "Player Name", "Team", "Position"} |->
        IF k = "Player Name" THEN <<"P">> \o team_id \o <<c>>
        ELSE IF k = "Team" THEN T_KC
        ELSE T_RB]

\* the players _extract_team_data_from_page finds on a team page
PageRosters(team_id) ==
    { <<>>,
      <<PageRow(team_id, "a")>>,
      <<PageRow(team_id, "a"), PageRow(team_id, "b")>> }

\* the text _get_manager_name_from_page finds on a team page
PageManager(team_id) == <<"M">> \o team_id

\* what the browser fetch of a team page does: it raises, the page has no
\* roster table, or the page has a roster table
EspnOutcomes(team_id) ==
    { [kind |-> "raise", data |-> NoData],
      [kind |-> "None",  data |-> NoData] }
    \cup
    { [kind |-> "data",
       data |-> [is_none |-> FALSE, source |-> "",
                 manager_name |-> PageManager(team_id), players |-> ps]] :
        ps \in PageRosters(team_id) }

\* the page is fetched only by the ESPN source
FetchOutcomes(src, team_id) ==
    IF src = "espn" THEN EspnOutcomes(team_id)
    ELSE {[kind |-> "unused", data |-> NoData]}

\* espn.fetch_roster: any exception becomes RuntimeError
espn_fetch_roster(team_id, page) ==
    IF page.kind = "raise"
    THEN [raised |-> "RuntimeError", outcome |-> "raised", data |-> NoData]
    ELSE IF page.kind = "None"
    THEN [raised |-> "none", outcome |-> "None", data |-> NoData]
    ELSE [raised |-> "none", outcome |-> "data", data |-> page.data]

\* a placeholder that raises instead of returning None
yahoo_fetch_roster_raising(team_id) ==
    [raised |-> "NotImplementedError", outcome |-> "raised", data |-> NoData]

\* yahoo.fetch_roster: not implemented, returns None
yahoo_fetch_roster(team_id) ==
    [raised |-> "none", outcome |-> "None", data |-> NoData]

\* sources.fetch_roster(team_id, source, session_state)
source_fetch_roster(team_id, src, page) ==
    IF src = "espn" THEN espn_fetch_roster(team_id, page)
    ELSE IF src = "yahoo" THEN yahoo_fetch_roster(team_id)
    ELSE [raised |-> "ValueError", outcome |-> "raised", data |-> NoData]

\* the teams file of fetch_teams: missing, unreadable, or holding team rows
TeamsFileOutcomes ==
    { [kind |-> "missing", teams |-> <<>>],
      [kind |-> "unreadable", teams |-> <<>>] }
    \cup
    { [kind |-> "data", teams |-> SubSeq(TeamIdPool, 1, n)] : n \in 0..MaxTeams }

\* the file is read only by the ESPN source
TeamsOutcomes(src) ==
    IF src = "espn" THEN TeamsFileOutcomes
    ELSE {[kind |-> "unused", teams |-> <<>>]}

\* espn.fetch_teams(input_file)
espn_fetch_teams(file) ==
    IF file.kind = "missing" THEN [raised |-> "FileNotFoundError", teams |-> <<>>]
    ELSE IF file.kind = "unreadable" THEN [raised |-> "RuntimeError", teams |-> <<>>]
    ELSE [raised |-> "none", teams |-> file.teams]

\* yahoo.fetch_teams: not implemented, returns []
yahoo_fetch_teams == [raised |-> "none", teams |-> <<>>]

\* sources.fetch_teams(input_file, source)
source_fetch_teams(src, file) ==
    IF src = "espn" THEN espn_fetch_teams(file)
    ELSE IF src = "yahoo" THEN yahoo_fetch_teams
    ELSE [raised |-> "ValueError", teams |-> <<>>]

\* FantasyFootballData.get_roster(team_id, source)
get_roster(team_id, src, page) ==
    LET raw == source_fetch_roster(team_id, src, page)
        fetched == <<"sources.fetch_roster">>
        transformed == Append(fetched, "transformers.to_canonical_roster")
    IN  IF raw.raised /= "none" \/ raw.outcome = "None"
        THEN \* the exception of the fetch, or "if not raw_data: return None"
             [raised |-> raw.raised, outcome |-> raw.outcome, data |-> raw.data,
              calls |-> fetched]
        ELSE LET c == to_canonical_roster(raw.data, src)
             IN  IF c.outcome = "ValueError"
                 THEN [raised |-> "ValueError", outcome |-> "raised", data |-> NoData,
                       calls |-> transformed]
                 ELSE [raised |-> "none", outcome |-> c.outcome, data |-> c.data,
                       calls |-> transformed]

\* a falsy roster or one without players: not team_data or not team_data.get('players')
NoPlayers(r) == r.outcome = "None" \/ r.data.players = <<>>

---------------------------------------------------------------------------
(* Roster tables printed to the terminal:                                  *)
(* src/fantasy_football_manager/core_data.py, src/modules/dump_teams.py     *)

\* preferred_columns of FantasyFootballData.display_roster_table
preferred_columns ==
    <<
       "Player Name", "Team", "Position", "Slot",
       "Projected Points", "Points", "Opponent", "Game Time",
       "Avg Points", "Last Game", "Rank", "Ownership %",
       "Start %", "Trend", "FPTS"
    >>

\* preferred_columns of modules.dump_teams.display_team_data
modules_preferred_columns ==
    <<
       "Player Name", "Team", "Position", "Roster Status",
       "Opponent", "Game Time", "Projected Points", "Points",
       "Avg Points", "Last Game", "Rank", "Ownership %",
       "Start %", "Status", "Trend", "Notes"
    >>

\* headers of a table: the preferred columns that occur, then sorted(rest)
TableHeaders(players, preferred) ==
    LET all_headers == AllHeaders(players)
    IN  SelectSeq(preferred, LAMBDA c : c \in all_headers)
           \o Sorted(all_headers \ Range(preferred))

\* one thing printed about a team: a table, or a message
Printed(team_id, kind, headers, rows) ==
    [team |-> team_id, kind |-> kind, headers |-> headers, rows |-> rows]

\* FantasyFootballData.display_roster_table(team_id, team_data)
display_roster_table(team_id, team_data) ==
    IF NoPlayers(team_data)
    THEN Printed(team_id, "no_data", <<>>, 0)
    ELSE Printed(team_id, "table",
                 TableHeaders(team_data.data.players, preferred_columns),
                 Len(team_data.data.players))

\* modules.dump_teams.display_team_data(team_id, team_data)
display_team_data(team_id, team_data) ==
    IF NoPlayers(team_data)
    THEN Printed(team_id, "no_data", <<>>, 0)
    ELSE Printed(team_id, "table",
                 TableHeaders(team_data.data.players, modules_preferred_columns),
                 Len(team_data.data.players))

---------------------------------------------------------------------------
(* Unified export: FantasyFootballData.export_all_teams_to_csv             *)

\* the loop body with a raising fetch swallowed but not recorded as failed
export_all_body_unrecorded(players, failed, team_id, src, page) ==
    LET team_data == get_roster(team_id, src, page)
    IN  IF team_data.raised /= "none"
        THEN [all_players |-> players, failed_teams |-> failed]
        ELSE IF NoPlayers(team_data)
        THEN [all_players |-> players, failed_teams |-> Append(failed, team_id)]
        ELSE LET manager == ManagerFor(team_data.data, team_id)
             IN  [all_players  |-> players \o
                                   [i \in DOMAIN team_data.data.players |->
                                      Tagged(team_data.data.players[i], manager, team_id)],
                  failed_teams |-> failed]

\* one iteration of "for team_id in team_ids": try: ... except Exception: ...
export_all_body(players, failed, team_id, src, page) ==
    LET team_data == get_roster(team_id, src, page)
    IN  IF team_data.raised /= "none"
        THEN \* except Exception as e: failed_teams.append(team_id); continue
             [all_players |-> players, failed_teams |-> Append(failed, team_id)]
        ELSE IF NoPlayers(team_data)
        THEN [all_players |-> players, failed_teams |-> Append(failed, team_id)]
        ELSE LET manager == ManagerFor(team_data.data, team_id)
             IN  [all_players  |-> players \o
                                   [i \in DOMAIN team_data.data.players |->
                                      Tagged(team_data.data.players[i], manager, team_id)],
                  failed_teams |-> failed]

\* open(filename, 'w') and the writes succeed or raise
IoOutcomes == {"ok", "PermissionError", "OSError"}

T_xcsv == <<"x",".","c","s","v">>

\* the filename argument
FilenameArgs == {None, T_xcsv}

TeamIdLists == {SubSeq(TeamIdPool, 1, n) : n \in 0..MaxTeams}

ReturnNone == [kind |-> "None", text |-> <<>>, items |-> <<>>, data |-> NoData]
ReturnPath(path) == [kind |-> "path", text |-> path, items |-> <<>>, data |-> NoData]
ReturnList(items) == [kind |-> "list", text |-> <<>>, items |-> items, data |-> NoData]
ReturnData(data) == [kind |-> "data", text |-> <<>>, items |-> <<>>, data |-> data]

\* the bookkeeping of an operation that has not started
Fresh ==
    /\ pc = "start"
    /\ cursor = 0
    /\ attempted = <<>>
    /\ all_players = <<>>
    /\ failed_teams = <<>>
    /\ rosters = <<>>
    /\ files = <<>>
    /\ displayed = <<>>
    /\ raised = "none"
    /\ result = NoResult
    /\ calls = <<>>

\* what one team of a batch met: the page fetch and the file write
LogEntry(team_id, page, io) ==
    [team |-> team_id, fetch |-> page.kind, players |-> page.data.players, io |-> io]

\* a loop left for the write after its first team
AfterTeamWritingEarly(at, n) == "write"

\* for team_id in team_ids: the write comes after the last team
AfterTeam(at, n) == IF at = n THEN "write" ELSE "loop"

ExportAllInit ==
    /\ op = "export_all_teams_to_csv"
    /\ source \in SourceNames
    /\ team_ids \in TeamIdLists
    /\ filename \in FilenameArgs
    /\ flags = NoFlags
    /\ Fresh


\* if not team_ids: return None
ExportAllStart ==
    /\ op = "export_all_teams_to_csv" /\ pc = "start"
    /\ IF team_ids = <<>>
       THEN pc' = "done" /\ result' = ReturnNone /\ cursor' = cursor
       ELSE pc' = "loop" /\ result' = result /\ cursor' = 1
    /\ UNCHANGED <<op, flags, calls, displayed, source, team_ids, attempted, all_players, failed_teams,
                   rosters, files, raised, filename>>
    /\ UNCHANGED <<statusVars, splitVars, canonVars, pageVars, listVars, fetchVars, csvVars>>

\* for team_id in team_ids: one team fetched and collected or marked failed
ExportAllTeam ==
    /\ op = "export_all_teams_to_csv" /\ pc = "loop"
    /\ \E page \in FetchOutcomes(source, team_ids[cursor]) :
          LET team_id == team_ids[cursor]
              b == export_all_body(all_players, failed_teams, team_id, source, page)
          IN  /\ all_players' = b.all_players
              /\ failed_teams' = b.failed_teams
              /\ attempted' = Append(attempted, LogEntry(team_id, page, "ok"))
              /\ calls' = calls \o get_roster(team_id, source, page).calls
    /\ cursor' = cursor + 1
    /\ pc' = AfterTeam(cursor, Len(team_ids))
    /\ UNCHANGED <<op, flags, displayed, source, team_ids, rosters, files, raised, result, filename>>
    /\ UNCHANGED <<statusVars, splitVars, canonVars, pageVars, listVars, fetchVars, csvVars>>

\* if not all_players: return None; else the headers are built and the file written
ExportAllWrite ==
    /\ op = "export_all_teams_to_csv" /\ pc = "write"
    /\ IF all_players = <<>>
       THEN /\ pc' = "done" /\ result' = ReturnNone
            /\ UNCHANGED <<files, raised>>
       ELSE \E io \in IoOutcomes :
              LET path    == OutputPath(filename, T_UnifiedPath)
                  headers == ExportHeaders(all_players)
              IN  IF io = "ok"
                  THEN /\ files' = Append(files,
                                     [name |-> path, headers |-> headers,
                                      rows |-> [i \in DOMAIN all_players |->
                                                  CleanRow(all_players[i], headers)]])
                       /\ pc' = "done" /\ result' = ReturnPath(path)
                       /\ raised' = raised
                  ELSE \* except ...: raise FileOperationError(...) from e
                       /\ pc' = "raised" /\ raised' = "FileOperationError"
                       /\ UNCHANGED <<files, result>>
    /\ UNCHANGED <<op, flags, calls, displayed, source, team_ids, cursor, attempted, all_players,
                   failed_teams, rosters, filename>>
    /\ UNCHANGED <<statusVars, splitVars, canonVars, pageVars, listVars, fetchVars, csvVars>>

---------------------------------------------------------------------------
(* Single-team export and the dump-teams command:                          *)
(* FantasyFootballData.export_team_to_csv and                               *)
(* src/fantasy_football_manager/actions/dump_teams.py                      *)

NoFile == [name |-> <<>>, headers |-> <<>>, rows |-> <<>>]

\* FantasyFootballData.export_team_to_csv(team_id, team_data, filename)
export_team_to_csv(team_id, team_data, name, io) ==
    IF NoPlayers(team_data)
    THEN [raised |-> "none", outcome |-> "None", file |-> NoFile]
    ELSE LET players == team_data.data.players
             manager == ManagerFor(team_data.data, team_id)
             path    == OutputPath(name, T_TeamPrefix \o team_id \o T_TeamSuffix)
             headers == ExportHeaders(players)
         IN  IF io = "ok"
             THEN [raised  |-> "none", outcome |-> "path",
                   file    |-> [name    |-> path,
                                headers |-> headers,
                                rows    |-> [i \in DOMAIN players |->
                                               CleanRow(Tagged(players[i], manager, team_id),
                                                        headers)]]]
             ELSE [raised |-> "FileOperationError", outcome |-> "raised", file |-> NoFile]

\* actions.dump_teams.dump_single_team with format 'csv': get_roster,
\* validate_team_data, display_roster_table, handle_team_export
dump_single_team(team_id, src, output_path, page, io) ==
    LET team_data == get_roster(team_id, src, page)
    IN  IF team_data.raised /= "none"
        THEN [raised |-> team_data.raised, file |-> NoFile, shown |-> <<>>]
        ELSE IF team_data.outcome = "None"
        THEN \* validate_team_data: raise DataValidationError
             [raised |-> "DataValidationError", file |-> NoFile, shown |-> <<>>]
        ELSE LET t == <<display_roster_table(team_id, team_data)>>
                 e == export_team_to_csv(team_id, team_data, output_path, io)
             IN  IF e.raised /= "none"
                 THEN [raised |-> e.raised, file |-> NoFile, shown |-> t]
                 ELSE IF e.outcome = "None"
                 THEN \* handle_team_export: raise FileOperationError
                      [raised |-> "FileOperationError", file |-> NoFile, shown |-> t]
                 ELSE [raised |-> "none", file |-> e.file,
                       shown |-> Append(t, Printed(team_id, "completed", <<>>, 0))]

\* the body of "for team_id in team_ids" of dump_teams_command: no try
dump_teams_loop_body(team_id, src, output_path, page, io) ==
    dump_single_team(team_id, src, output_path, page, io)

\* the file write is reached only with a roster that has players
IoFor(page) ==
    IF page.kind = "data" /\ page.data.players /= <<>> THEN IoOutcomes ELSE {"ok"}

\* --all and --unified-csv each given or not
Flags == [all : BOOLEAN, unified_csv : BOOLEAN]

\* --team and --all exclude each other: with --all the team ids come from
\* the teams file
DumpTeamsInit ==
    /\ op = "dump_teams_command"
    /\ source \in SourceNames
    /\ flags \in Flags
    /\ team_ids \in IF flags.all THEN {<<>>} ELSE TeamIdLists
    /\ filename \in FilenameArgs
    /\ Fresh

\* a command that takes --unified-csv without --all
RejectsFlagsNever(f) == FALSE

\* if args.unified_csv and not args.all
RejectsFlags(f) == f.unified_csv /\ ~f.all

\* a message of the command that is about no single team
Message(kind) == Printed(<<>>, kind, <<>>, 0)

\* if args.unified_csv and not args.all: print the warning; return
\* if args.all: all_teams = ff_data.get_all_teams(); no teams: return
\* elif args.team: ... else: print("No teams specified"); return
DumpTeamsStart ==
    /\ op = "dump_teams_command" /\ pc = "start"
    /\ IF RejectsFlags(flags)
       THEN /\ pc' = "done"
            /\ displayed' = Append(displayed, Message("unified_requires_all"))
            /\ UNCHANGED <<team_ids, cursor, raised>>
       ELSE IF flags.all
       THEN \E file \in TeamsFileOutcomes :
               LET all_teams == source_fetch_teams("espn", file)
               IN  IF all_teams.raised /= "none"
                   THEN /\ pc' = "raised" /\ raised' = all_teams.raised
                        /\ UNCHANGED <<team_ids, cursor, displayed>>
                   ELSE IF all_teams.teams = <<>>
                   THEN /\ pc' = "done"
                        /\ displayed' = Append(displayed, Message("no_teams"))
                        /\ UNCHANGED <<team_ids, cursor, raised>>
                   ELSE /\ team_ids' = all_teams.teams
                        /\ pc' = IF flags.unified_csv THEN "unified" ELSE "loop"
                        /\ cursor' = 1
                        /\ UNCHANGED <<displayed, raised>>
       ELSE IF team_ids = <<>>
       THEN /\ pc' = "done"
            /\ displayed' = Append(displayed, Message("no_teams"))
            /\ UNCHANGED <<team_ids, cursor, raised>>
       ELSE /\ pc' = "loop" /\ cursor' = 1
            /\ UNCHANGED <<team_ids, displayed, raised>>
    /\ UNCHANGED <<op, flags, calls, source, attempted, all_players, failed_teams,
                   rosters, files, result, filename>>
    /\ UNCHANGED <<statusVars, splitVars, canonVars, pageVars, listVars, fetchVars, csvVars>>

\* for team_id in team_ids: dump_single_team(...), exceptions propagate
DumpTeamsTeam ==
    /\ op = "dump_teams_command" /\ pc = "loop"
    /\ \E page \in FetchOutcomes(source, team_ids[cursor]) :
       \E io \in IoFor(page) :
          LET team_id == team_ids[cursor]
              d == dump_teams_loop_body(team_id, source, filename, page, io)
          IN  /\ attempted' = Append(attempted, LogEntry(team_id, page, io))
              /\ displayed' = displayed \o d.shown
              /\ calls' = calls \o get_roster(team_id, source, page).calls
              /\ IF d.raised /= "none"
                 THEN /\ pc' = "raised" /\ raised' = d.raised
                      /\ UNCHANGED <<files, cursor>>
                 ELSE /\ files' = IF d.file = NoFile THEN files
                                  ELSE Append(files, d.file)
                      /\ raised' = raised
                      /\ cursor' = cursor + 1
                      /\ pc' = IF cursor = Len(team_ids) THEN "done" ELSE "loop"
    /\ UNCHANGED <<op, flags, source, team_ids, all_players, failed_teams, rosters,
                   result, filename>>
    /\ UNCHANGED <<statusVars, splitVars, canonVars, pageVars, listVars, fetchVars, csvVars>>

\* s.endswith(suffix)
EndsWith(s, suffix) ==
    Len(s) >= Len(suffix) /\ SubSeq(s, Len(s) - Len(suffix) + 1, Len(s)) = suffix

T_csv == <<".","c","s","v">>

T_UnifiedName == <<"l","e","a","g","u","e","_","u","n","i","f","i","e","d","_","r","o","s","t","e","r",".","c","s","v">>

\* unified_output of dump_teams_command: args.output, defaulted, with '.csv'
UnifiedOutput(output) ==
    IF ~Truthy(output) THEN T_UnifiedName
    ELSE IF ~EndsWith(output, T_csv) THEN output \o T_csv
    ELSE output

\* one page fetch for each team id of the list
PagesFor(src, ids) ==
    {pages \in [DOMAIN ids -> UNION {FetchOutcomes(src, ids[i]) : i \in DOMAIN ids}] :
        \A i \in DOMAIN ids : pages[i] \in FetchOutcomes(src, ids[i])}

\* the loop of export_all_teams_to_csv over the first n team ids
RECURSIVE export_all_loop(_, _, _, _)
export_all_loop(ids, src, pages, n) ==
    IF n = 0 THEN [all_players |-> <<>>, failed_teams |-> <<>>]
    ELSE LET before == export_all_loop(ids, src, pages, n - 1)
         IN  export_all_body(before.all_players, before.failed_teams,
                             ids[n], src, pages[n])

\* the calls get_roster makes for the first n team ids
RECURSIVE RosterCalls(_, _, _, _)
RosterCalls(ids, src, pages, n) ==
    IF n = 0 THEN <<>>
    ELSE RosterCalls(ids, src, pages, n - 1) \o get_roster(ids[n], src, pages[n]).calls

\* if args.unified_csv: csv_filename = ff_data.export_all_teams_to_csv(...)
\* in a try: None or an exception is printed and the command returns
DumpTeamsUnified ==
    /\ op = "dump_teams_command" /\ pc = "unified"
    /\ \E pages \in PagesFor(source, team_ids) :
          LET n == Len(team_ids)
              c == export_all_loop(team_ids, source, pages, n)
              path == OutputPath(UnifiedOutput(filename), T_UnifiedPath)
              headers == ExportHeaders(c.all_players)
          IN  /\ attempted' = attempted \o
                    [i \in 1..n |-> LogEntry(team_ids[i], pages[i], "ok")]
              /\ calls' = calls \o RosterCalls(team_ids, source, pages, n)
              /\ all_players' = c.all_players
              /\ failed_teams' = c.failed_teams
              /\ IF c.all_players = <<>>
                 THEN /\ displayed' = Append(displayed, Message("unified_failed"))
                      /\ files' = files
                 ELSE \E io \in IoOutcomes :
                         IF io = "ok"
                         THEN /\ files' = Append(files,
                                   [name |-> path, headers |-> headers,
                                    rows |-> [i \in DOMAIN c.all_players |->
                                                CleanRow(c.all_players[i], headers)]])
                              /\ displayed' = displayed \o
                                    <<Message("unified_exported"), Message("completed")>>
                         ELSE \* except Exception as e: print(...); return
                              /\ displayed' = Append(displayed, Message("unified_error"))
                              /\ files' = files
    /\ pc' = "done"
    /\ UNCHANGED <<op, flags, source, team_ids, cursor, rosters, raised, result,
                   filename>>
    /\ UNCHANGED <<statusVars, splitVars, canonVars, pageVars, listVars, fetchVars, csvVars>>

---------------------------------------------------------------------------
(* FantasyFootballData.get_multiple_rosters:                               *)
(* src/fantasy_football_manager/core_data.py and the older src/core_data.py *)

\* rosters[team_id] = self.get_roster(team_id): the result, or the exception
get_multiple_rosters_body(team_id, page) == get_roster(team_id, "espn", page)

\* src/core_data.py get_roster: the page data as extracted, None, or any
\* exception as RuntimeError
old_get_roster(team_id, page) ==
    IF page.kind = "raise"
    THEN [raised |-> "RuntimeError", outcome |-> "raised", data |-> NoData]
    ELSE IF page.kind = "None"
    THEN [raised |-> "none", outcome |-> "None", data |-> NoData]
    ELSE [raised |-> "none", outcome |-> "data", data |-> page.data]

\* src/core_data.py: try: rosters[team_id] = self.get_roster(team_id)
\*                   except Exception: rosters[team_id] = None
get_multiple_rosters_body_old(team_id, page) ==
    LET r == old_get_roster(team_id, page)
    IN  IF r.raised /= "none"
        THEN [raised |-> "none", outcome |-> "None", data |-> NoData]
        ELSE r

MultipleRostersInit ==
    /\ op \in {"get_multiple_rosters", "old.get_multiple_rosters"}
    /\ source = "espn"
    /\ team_ids \in TeamIdLists
    /\ filename = None
    /\ flags = NoFlags
    /\ Fresh

MultipleRostersStart ==
    /\ op \in {"get_multiple_rosters", "old.get_multiple_rosters"} /\ pc = "start"
    /\ IF team_ids = <<>>
       THEN pc' = "done" /\ cursor' = cursor /\ result' = ReturnList(rosters)
       ELSE pc' = "loop" /\ cursor' = 1 /\ result' = result
    /\ UNCHANGED <<op, flags, calls, displayed, source, team_ids, attempted, all_players, failed_teams,
                   rosters, files, raised, filename>>
    /\ UNCHANGED <<statusVars, splitVars, canonVars, pageVars, listVars, fetchVars, csvVars>>

\* for team_id in team_ids: rosters[team_id] = self.get_roster(team_id)
MultipleRostersTeam ==
    /\ op \in {"get_multiple_rosters", "old.get_multiple_rosters"} /\ pc = "loop"
    /\ \E page \in FetchOutcomes(source, team_ids[cursor]) :
          LET team_id == team_ids[cursor]
              r == IF op = "get_multiple_rosters"
                   THEN get_multiple_rosters_body(team_id, page)
                   ELSE get_multiple_rosters_body_old(team_id, page)
              got == Append(rosters, [team |-> team_id, roster |-> r.outcome])
          IN  /\ attempted' = Append(attempted, LogEntry(team_id, page, "ok"))
              /\ calls' = IF op = "get_multiple_rosters"
                          THEN calls \o get_roster(team_id, "espn", page).calls
                          ELSE calls
              /\ IF r.raised /= "none"
                 THEN /\ pc' = "raised" /\ raised' = r.raised
                      /\ UNCHANGED <<rosters, cursor, result>>
                 ELSE /\ rosters' = got
                      /\ raised' = raised
                      /\ cursor' = cursor + 1
                      /\ IF cursor = Len(team_ids)
                         THEN pc' = "done" /\ result' = ReturnList(got)
                         ELSE pc' = "loop" /\ result' = result
    /\ UNCHANGED <<op, flags, displayed, source, team_ids, all_players, failed_teams, files, filename>>
    /\ UNCHANGED <<statusVars, splitVars, canonVars, pageVars, listVars, fetchVars, csvVars>>

---------------------------------------------------------------------------
(* The older dump-teams command: src/modules/dump_teams.py                 *)

\* a row as extract_team_data_from_page builds it
ModulesPageRow(team_id, c) ==
    [k \in {"Position", "Player Name", "Team", "Roster Status"} |->
        IF k = "Player Name" THEN <<"P">> \o team_id \o <<c>>
        ELSE IF k = "Team" THEN T_KC
        ELSE T_RB]

ModulesPageRosters(team_id) ==
    { <<>>,
      <<ModulesPageRow(team_id, "a")>>,
      <<ModulesPageRow(team_id, "a"), ModulesPageRow(team_id, "b")>> }

\* fetch_team_data: it raises, extract_team_data_from_page returns None, or
\* it returns the players of the page
ModulesOutcomes(team_id) ==
    { [kind |-> "raise", data |-> NoData],
      [kind |-> "None",  data |-> NoData] }
    \cup
    { [kind |-> "data",
       data |-> [is_none |-> FALSE, source |-> "",
                 manager_name |-> PageManager(team_id), players |-> ps]] :
        ps \in ModulesPageRosters(team_id) }

\* modules.dump_teams.export_team_to_csv: every exception of the write is
\* printed and None returned
modules_export_team_to_csv(team_id, team_data, name, io) ==
    LET e == export_team_to_csv(team_id,
                 [raised |-> "none", outcome |-> "data", data |-> team_data],
                 name, io)
    IN  IF e.raised /= "none"
        THEN [raised |-> "none", outcome |-> "None", file |-> NoFile]
        ELSE e

\* modules.dump_teams.dump_single_team; returned = FALSE is "return False"
modules_dump_single_team(team_id, output_path, page, io) ==
    IF page.kind = "raise"
    THEN [raised |-> "Exception", returned |-> FALSE, file |-> NoFile, shown |-> <<>>]
    ELSE IF page.kind = "None"
    THEN \* print("Failed to fetch data for team ..."); return False
         [raised |-> "none", returned |-> FALSE, file |-> NoFile,
          shown |-> <<Printed(team_id, "failed", <<>>, 0)>>]
    ELSE LET team_data == [raised |-> "none", outcome |-> "data", data |-> page.data]
             t == display_team_data(team_id, team_data)
             e == modules_export_team_to_csv(team_id, page.data, output_path, io)
         IN  \* "Team data exported to: ..." or "Team data extraction
             \* completed successfully!", and return True either way
             [raised |-> "none", returned |-> TRUE, file |-> e.file,
              shown |-> <<t, Printed(team_id,
                                     IF e.outcome = "path" THEN "exported"
                                     ELSE "completed", <<>>, 0)>>]

ModulesDumpInit ==
    /\ op = "modules.dump_teams_command"
    /\ source = "espn"
    /\ team_ids \in TeamIdLists \ {<<>>}
    /\ filename \in FilenameArgs
    /\ flags = NoFlags
    /\ Fresh

\* --team is required, nargs='+': the loop starts at once
ModulesDumpStart ==
    /\ op = "modules.dump_teams_command" /\ pc = "start"
    /\ pc' = "loop" /\ cursor' = 1
    /\ UNCHANGED <<op, flags, calls, displayed, source, team_ids, attempted, all_players, failed_teams,
                   rosters, files, raised, result, filename>>
    /\ UNCHANGED <<statusVars, splitVars, canonVars, pageVars, listVars, fetchVars, csvVars>>

\* for team_id in args.team: success = dump_single_team(...);
\* except Exception: print(...); sys.exit(1)
ModulesDumpTeam ==
    /\ op = "modules.dump_teams_command" /\ pc = "loop"
    /\ \E page \in ModulesOutcomes(team_ids[cursor]) :
       \E io \in IoFor(page) :
          LET team_id == team_ids[cursor]
              d == modules_dump_single_team(team_id, filename, page, io)
          IN  /\ attempted' = Append(attempted, LogEntry(team_id, page, io))
              /\ displayed' = displayed \o d.shown
              /\ IF d.raised /= "none"
                 THEN /\ pc' = "raised" /\ raised' = "SystemExit"
                      /\ UNCHANGED <<files, cursor>>
                 ELSE /\ files' = IF d.file = NoFile THEN files
                                  ELSE Append(files, d.file)
                      /\ raised' = raised
                      /\ cursor' = cursor + 1
                      /\ pc' = IF cursor = Len(team_ids) THEN "done" ELSE "loop"
    /\ UNCHANGED <<op, flags, calls, source, team_ids, all_players, failed_teams, rosters,
                   result, filename>>
    /\ UNCHANGED <<statusVars, splitVars, canonVars, pageVars, listVars, fetchVars, csvVars>>

---------------------------------------------------------------------------
(* Calls that take a source name: the dispatchers of the sources and        *)
(* transformers packages, get_roster and get_players                        *)

\* a free-agent row in canonical form
FreeAgent(c) == [k \in {"name", "team", "position"} |->
                    IF k = "name" THEN <<"F", c>>
                    ELSE IF k = "team" THEN T_KC ELSE T_RB]

\* what espn_players.to_canonical_players makes of the fetched page: None
\* without a table, else the rows it can parse
PlayersPages ==
    { [kind |-> "None", players |-> <<>>],
      [kind |-> "list", players |-> <<>>],
      [kind |-> "list", players |-> <<FreeAgent("a")>>],
      [kind |-> "list", players |-> <<FreeAgent("a"), FreeAgent("b")>>] }

\* sources.fetch_players(source, session_state, filters): it raises, returns
\* nothing, or returns the raw page
PlayersFetches == {"raise", "None", "data"}

source_fetch_players(src, fetch) ==
    IF fetch = "raise" THEN [raised |-> "Exception", outcome |-> "raised"]
    ELSE IF fetch = "None" THEN [raised |-> "none", outcome |-> "None"]
    ELSE [raised |-> "none", outcome |-> "data"]

\* transformers.to_canonical_players(data, source)
to_canonical_players(parsed_page, src) ==
    IF src = "espn"
    THEN [raised |-> "none", outcome |-> parsed_page.kind, players |-> parsed_page.players]
    ELSE [raised |-> "ValueError", outcome |-> "raised", players |-> <<>>]

\* str.split(c)
RECURSIVE SplitOn(_, _)
SplitOn(s, c) ==
    IF \A i \in DOMAIN s : s[i] /= c THEN <<s>>
    ELSE LET i == CHOOSE k \in DOMAIN s : s[k] = c /\ \A j \in 1..(k - 1) : s[j] /= c
         IN  <<SubSeq(s, 1, i - 1)>> \o SplitOn(SubSeq(s, i + 1, Len(s)), c)

\* [p.strip().upper() for p in text.split(',')]
Wanted(text) == { Upper(Strip(piece)) : piece \in Range(SplitOn(text, ",")) }

\* x.get('projected_points', 0) or 0
PointsKey(x) ==
    LET v == Get(x, "projected_points", Number(0))
    IN  IF v.none \/ v.value = 0 THEN 0 ELSE v.value

\* sorted(filtered, key=..., reverse=True): descending, and players of equal
\* key keep their order
RECURSIVE SortedByPoints(_)
SortedByPoints(seq) ==
    IF seq = <<>> THEN <<>>
    ELSE LET before == SortedByPoints(SubSeq(seq, 1, Len(seq) - 1))
             x == seq[Len(seq)]
             n == Cardinality({ i \in DOMAIN before : PointsKey(before[i]) >= PointsKey(x) })
         IN  SubSeq(before, 1, n) \o <<x>> \o SubSeq(before, n + 1, Len(before))

\* the dict's key is there and its value is truthy
HasFilter(filters, k) ==
    /\ k \in DOMAIN filters
    /\ IF k = "limit" THEN filters[k] /= 0 ELSE filters[k] /= <<>>

\* filtered[:limit]
LimitSlice(seq, limit) ==
    IF limit >= 0 THEN SubSeq(seq, 1, IF limit < Len(seq) THEN limit ELSE Len(seq))
    ELSE SubSeq(seq, 1, IF Len(seq) + limit > 0 THEN Len(seq) + limit ELSE 0)

\* FantasyFootballData._apply_client_side_filters(players, filters)
apply_client_side_filters(players, filters) ==
    LET by_position ==
            IF HasFilter(filters, "position")
            THEN SelectSeq(players, LAMBDA p :
                     Upper(Get(p, "position", <<>>)) \in Wanted(filters["position"]))
            ELSE players
        by_status ==
            IF HasFilter(filters, "status")
            THEN SelectSeq(by_position, LAMBDA p :
                     Contains(Upper(Get(p, "status", <<>>)), Upper(filters["status"])))
            ELSE by_position
        by_team ==
            IF HasFilter(filters, "team")
            THEN SelectSeq(by_status, LAMBDA p :
                     Upper(Get(p, "team", <<>>)) \in Wanted(filters["team"]))
            ELSE by_status
        sorted == SortedByPoints(by_team)
    IN  IF HasFilter(filters, "limit")
        THEN LimitSlice(sorted, filters["limit"])
        ELSE sorted

\* filters=None, and the empty dict
NoFilters == <<>>

\* FantasyFootballData.get_players(source, filters=None): every exception
\* is logged and [] returned
get_players(src, fetch, parsed_page, filters) ==
    LET raw == source_fetch_players(src, fetch)
    IN  IF raw.raised /= "none" THEN <<>>
        ELSE IF raw.outcome = "None" THEN <<>>
        ELSE LET players == to_canonical_players(parsed_page, src)
             IN  IF players.raised /= "none" THEN <<>>
                 ELSE IF players.outcome = "None" \/ players.players = <<>> THEN <<>>
                 ELSE IF DOMAIN filters /= {}
                      THEN apply_client_side_filters(players.players, filters)
                      ELSE players.players

SourceOps == {"sources.fetch_roster", "sources.fetch_teams", "get_roster", "get_players"}

SourceCallInit ==
    /\ op \in SourceOps
    /\ source \in SourceNames
    /\ team_ids = IF op \in {"sources.fetch_roster", "get_roster"}
                  THEN <<TeamIdPool[1]>> ELSE <<>>
    /\ filename = None
    /\ flags = NoFlags
    /\ Fresh

\* sources.fetch_roster(team_id, source, session_state)
FetchRosterCall ==
    /\ op = "sources.fetch_roster" /\ pc = "start"
    /\ \E page \in FetchOutcomes(source, team_ids[1]) :
          LET r == source_fetch_roster(team_ids[1], source, page)
          IN  /\ attempted' = Append(attempted, LogEntry(team_ids[1], page, "ok"))
              /\ IF r.raised /= "none"
                 THEN pc' = "raised" /\ raised' = r.raised /\ result' = result
                 ELSE /\ pc' = "done" /\ raised' = raised
                      /\ result' = IF r.outcome = "None" THEN ReturnNone
                                   ELSE ReturnData(r.data)
    /\ UNCHANGED <<op, flags, calls, displayed, source, team_ids, cursor, all_players, failed_teams,
                   rosters, files, filename>>
    /\ UNCHANGED <<statusVars, splitVars, canonVars, pageVars, listVars, fetchVars, csvVars>>

\* sources.fetch_teams(input_file, source)
FetchTeamsCall ==
    /\ op = "sources.fetch_teams" /\ pc = "start"
    /\ \E file \in TeamsOutcomes(source) :
          LET r == source_fetch_teams(source, file)
          IN  IF r.raised /= "none"
              THEN pc' = "raised" /\ raised' = r.raised /\ result' = result
              ELSE pc' = "done" /\ raised' = raised /\ result' = ReturnList(r.teams)
    /\ UNCHANGED <<op, flags, calls, displayed, source, team_ids, cursor, attempted, all_players,
                   failed_teams, rosters, files, filename>>
    /\ UNCHANGED <<statusVars, splitVars, canonVars, pageVars, listVars, fetchVars, csvVars>>

\* FantasyFootballData.get_roster(team_id, source)
GetRosterCall ==
    /\ op = "get_roster" /\ pc = "start"
    /\ \E page \in FetchOutcomes(source, team_ids[1]) :
          LET r == get_roster(team_ids[1], source, page)
          IN  /\ attempted' = Append(attempted, LogEntry(team_ids[1], page, "ok"))
              /\ calls' = r.calls
              /\ IF r.raised /= "none"
                 THEN pc' = "raised" /\ raised' = r.raised /\ result' = result
                 ELSE /\ pc' = "done" /\ raised' = raised
                      /\ result' = IF r.outcome = "None" THEN ReturnNone
                                   ELSE ReturnData(r.data)
    /\ UNCHANGED <<op, flags, displayed, source, team_ids, cursor, all_players,
                   failed_teams,
                   rosters, files, filename>>
    /\ UNCHANGED <<statusVars, splitVars, canonVars, pageVars, listVars, fetchVars, csvVars>>

\* FantasyFootballData.get_players(source)
GetPlayersCall ==
    /\ op = "get_players" /\ pc = "start"
    /\ \E fetch \in PlayersFetches : \E parsed_page \in PlayersPages :
          /\ result' = ReturnList(get_players(source, fetch, parsed_page, NoFilters))
          /\ pc' = "done"
    /\ UNCHANGED <<op, flags, calls, displayed, source, team_ids, cursor, attempted, all_players,
                   failed_teams, rosters, files, raised, filename>>
    /\ UNCHANGED <<statusVars, splitVars, canonVars, pageVars, listVars, fetchVars, csvVars>>

---------------------------------------------------------------------------
(* Calls that take a roster result: the CSV exports and the roster tables   *)
(* of src/fantasy_football_manager/core_data.py and src/modules/dump_teams.py *)

\* keys a player record may carry besides its name and team
OptionalKeys == {"Manager", "Team_ID", "Action", "Slot", "FPTS", "Notes"}

\* a player record with the given optional keys
Player(keys) ==
    [k \in {"Player Name", "Team"} \cup keys |->
        IF k = "Player Name" THEN T_Joe
        ELSE IF k = "Team" THEN T_KC
        ELSE <<"v">>]

\* the players lists handed to an export or a table
RosterLists ==
    {<<>>}
    \cup {<<Player(keys)>> : keys \in SUBSET OptionalKeys}
    \cup {<<Player({"Slot"}), Player(keys)>> :
             keys \in {{"Manager"}, {"Team_ID", "Action"}, {"FPTS", "Notes"}}}

\* the team_data argument: None, or a dict with its players list
RosterArgs(team_id) ==
    {[kind |-> "None", data |-> NoData]}
    \cup
    {[kind |-> "data",
      data |-> [is_none |-> FALSE, source |-> "",
                manager_name |-> PageManager(team_id), players |-> ps]] :
        ps \in RosterLists}

\* the argument as the roster result the consumers receive
AsRoster(arg) ==
    IF arg.kind = "None"
    THEN [raised |-> "none", outcome |-> "None", data |-> NoData]
    ELSE [raised |-> "none", outcome |-> "data", data |-> arg.data]

ExportOps == {"export_team_to_csv", "modules.export_team_to_csv"}

\* the filename argument of one export: none, empty, relative, absolute,
\* './' and '../' paths, and paths that start with 'output'
ExportFilenames ==
    FilenameArgs \cup
    { <<>>, <<"/","x">>, <<".","/","x">>, <<".",".","/","x">>,
      T_OutputDir \o <<"x">>, <<"o","u","t","p","u","t">>,
      <<"o","u","t","p","u","t","x">>, <<".","x">> }

DisplayOps == {"display_roster_table", "modules.display_team_data"}

RosterCallInit ==
    /\ op \in ExportOps \cup DisplayOps
    /\ source = "espn"
    /\ team_ids = <<TeamIdPool[1]>>
    /\ filename \in IF op \in ExportOps THEN ExportFilenames ELSE {None}
    /\ flags = NoFlags
    /\ Fresh

\* export_team_to_csv(team_id, team_data, filename) of the package and of
\* modules.dump_teams
ExportTeamCall ==
    /\ op \in ExportOps /\ pc = "start"
    /\ \E arg \in RosterArgs(team_ids[1]) :
       \E io \in IoFor(arg) :
          LET e == IF op = "export_team_to_csv"
                   THEN export_team_to_csv(team_ids[1], AsRoster(arg), filename, io)
                   ELSE modules_export_team_to_csv(team_ids[1], arg.data, filename, io)
          IN  /\ attempted' = Append(attempted, LogEntry(team_ids[1], arg, io))
              /\ IF e.raised /= "none"
                 THEN /\ pc' = "raised" /\ raised' = e.raised
                      /\ UNCHANGED <<files, result>>
                 ELSE /\ pc' = "done" /\ raised' = raised
                      /\ files' = IF e.file = NoFile THEN files
                                  ELSE Append(files, e.file)
                      /\ result' = IF e.outcome = "None" THEN ReturnNone
                                   ELSE ReturnPath(e.file.name)
    /\ UNCHANGED <<op, flags, calls, displayed, source, team_ids, cursor, all_players,
                   failed_teams, rosters, filename>>
    /\ UNCHANGED <<statusVars, splitVars, canonVars, pageVars, listVars, fetchVars, csvVars>>

\* a caller exports the same roster once more to the path it was returned
ExportAgain ==
    /\ op \in ExportOps /\ pc = "done" /\ result.kind = "path"
    /\ \E io \in IoOutcomes :
          LET arg == [kind |-> "data",
                      data |-> [is_none |-> FALSE, source |-> "",
                                manager_name |-> PageManager(team_ids[1]),
                                players |-> attempted[1].players]]
              e == IF op = "export_team_to_csv"
                   THEN export_team_to_csv(team_ids[1], AsRoster(arg), result.text, io)
                   ELSE modules_export_team_to_csv(team_ids[1], arg.data, result.text, io)
          IN  /\ attempted' = Append(attempted, LogEntry(team_ids[1], arg, io))
              /\ IF e.raised /= "none"
                 THEN /\ pc' = "raised" /\ raised' = e.raised
                      /\ UNCHANGED <<files, result>>
                 ELSE /\ pc' = "again" /\ raised' = raised
                      /\ files' = IF e.file = NoFile THEN files
                                  ELSE Append(files, e.file)
                      /\ result' = IF e.outcome = "None" THEN ReturnNone
                                   ELSE ReturnPath(e.file.name)
    /\ UNCHANGED <<op, flags, calls, displayed, source, team_ids, cursor, all_players,
                   failed_teams, rosters, filename>>
    /\ UNCHANGED <<statusVars, splitVars, canonVars, pageVars, listVars, fetchVars, csvVars>>

\* display_roster_table(team_id, team_data) of the package and
\* display_team_data(team_id, team_data) of modules.dump_teams
DisplayCall ==
    /\ op \in DisplayOps /\ pc = "start"
    /\ \E arg \in RosterArgs(team_ids[1]) :
          LET t == IF op = "display_roster_table"
                   THEN display_roster_table(team_ids[1], AsRoster(arg))
                   ELSE display_team_data(team_ids[1], AsRoster(arg))
          IN  /\ attempted' = Append(attempted, LogEntry(team_ids[1], arg, "ok"))
              /\ displayed' = Append(displayed, t)
              /\ pc' = "done"
              /\ result' = ReturnNone
    /\ UNCHANGED <<op, flags, calls, source, team_ids, cursor, all_players, failed_teams,
                   rosters, files, raised, filename>>
    /\ UNCHANGED <<statusVars, splitVars, canonVars, pageVars, listVars, fetchVars, csvVars>>

---------------------------------------------------------------------------
(* The program: one operation of the data layer or of a command, or one call *)
(* of the roster transformer                                                 *)

BatchInit ==
    \/ ExportAllInit
    \/ DumpTeamsInit
    \/ MultipleRostersInit
    \/ ModulesDumpInit
    \/ SourceCallInit
    \/ RosterCallInit

BatchNext ==
    \/ ExportAllStart
    \/ ExportAllTeam
    \/ ExportAllWrite
    \/ DumpTeamsStart
    \/ DumpTeamsTeam
    \/ DumpTeamsUnified
    \/ MultipleRostersStart
    \/ MultipleRostersTeam
    \/ ModulesDumpStart
    \/ ModulesDumpTeam
    \/ FetchRosterCall
    \/ FetchTeamsCall
    \/ GetRosterCall
    \/ GetPlayersCall
    \/ ExportTeamCall
    \/ ExportAgain
    \/ DisplayCall

Init ==
    /\ StatusIdle /\ SplitIdle /\ PageIdle /\ ListIdle /\ FetchIdle /\ CsvIdle
    /\ \/ CanonIdle /\ BatchInit
       \/ CanonInputs /\ BatchIdle

Next == BatchNext \/ Canonicalize

Spec == Init /\ [][Next]_vars

---------------------------------------------------------------------------
(* The free-agent listing: list_free_agents_command builds the filters     *)
(* from its arguments and get_players filters, sorts and limits the page   *)

MaxLimit  == 3
MaxAgents == 3

T_FA == <<"F","A">>
T_WA == <<"W","A"," ","(","W","e","d",")">>
T_rb == <<"r","b">>
T_kc == <<"k","c">>
T_fa == <<"f","a">>
T_RB_WR == <<"R","B",","," ","W","R">>
T_BUF == <<"B","U","F">>

\* a row of the free-agent page as _parse_player_row returns it, with the
\* keys the filters read
Agent(c, position, team, status, projected) ==
    [k \in {"name", "position", "team", "status", "projected_points"} |->
        IF k = "name" THEN <<"F", c>>
        ELSE IF k = "position" THEN position
        ELSE IF k = "team" THEN team
        ELSE IF k = "status" THEN status
        ELSE projected]

AgentPool ==
    { Agent("a", T_RB, T_KC, T_FA, Number(1)),
      Agent("b", T_WR, T_KC, T_FA, Number(2)),
      Agent("c", T_RB, T_KC, T_WA, NoNumber),
      Agent("d", T_RB, T_BUF, T_FA, Number(1)),
      Agent("e", T_WR, T_KC, T_FA, Number(0)) }

\* what to_canonical_players makes of the fetched page: None without a
\* table, else its rows
ListingPages ==
    { [kind |-> "None", players |-> <<>>] } \cup
    { [kind |-> "list", players |-> rows] :
        rows \in { r \in UNION { [1..n -> AgentPool] : n \in 0..MaxAgents } :
                     \A i, j \in DOMAIN r : r[i] = r[j] => i = j } }

\* -p/--position, -s/--status, -t/--team and -l/--limit (type=int)
ListingArgs ==
    [ position : {None, T_rb, T_RB_WR},
      status   : {None, T_fa},
      team     : {None, T_kc},
      limit    : {NoNumber} \cup { Number(n) : n \in 0..MaxLimit } ]

\* filters = {}; if args.position: filters['position'] = args.position; ...
BuildFilters(a) ==
    LET given == { k \in {"position", "status", "team"} : Truthy(a[k]) }
                 \cup (IF ~a.limit.none /\ a.limit.value /= 0 THEN {"limit"} ELSE {})
    IN  [k \in given |-> IF k = "limit" THEN a.limit.value ELSE a[k]]

ListingInit ==
    /\ args \in ListingArgs
    /\ agents_page = NoFetch
    /\ listed = <<>>
    /\ list_pc = "start"
    /\ StatusIdle /\ SplitIdle /\ CanonIdle /\ BatchIdle /\ PageIdle /\ FetchIdle /\ CsvIdle

\* list_free_agents_command(args): players = ff_data.get_players(source='espn',
\* filters=filters); nothing is shown for an empty result
ListFreeAgents ==
    /\ list_pc = "start"
    /\ \E fetch \in PlayersFetches : \E page \in ListingPages :
          LET players == get_players("espn", fetch, page, BuildFilters(args))
          IN  /\ agents_page' = [fetch |-> fetch, kind |-> page.kind, players |-> page.players]
              /\ listed' = players
              /\ list_pc' = IF players = <<>> THEN "no_players" ELSE "shown"
    /\ UNCHANGED args
    /\ UNCHANGED <<statusVars, splitVars, canonVars, batchVars, pageVars, fetchVars, csvVars>>

SpecList == ListingInit /\ [][ListFreeAgents]_vars

---------------------------------------------------------------------------
(* The browser of a roster fetch: sources.espn.fetch_roster and            *)
(* modules.dump_teams.fetch_team_data, called once per team of a batch     *)

MaxFetches == 3

Fetchers == {"sources.espn.fetch_roster", "modules.dump_teams.fetch_team_data"}

FetchInit ==
    /\ fetcher \in Fetchers
    /\ session \in BOOLEAN
    /\ fetch_total \in 1..MaxFetches
    /\ fetch_no = 1
    /\ fetch_step = "start"
    /\ open_browsers = {}
    /\ open_pages = {}
    /\ fetch_outcomes = <<>>
    /\ StatusIdle /\ SplitIdle /\ CanonIdle /\ BatchIdle /\ PageIdle /\ ListIdle /\ CsvIdle

\* an exit of the playwright block that leaves its browsers running
PlaywrightExitLeavingOpen(open, owner) == open

\* the end of "with sync_playwright() as p": the driver is stopped and the
\* browsers launched from it are closed with it
PlaywrightExit(open, owner) == open \ {owner}

\* the pages and contexts of a browser go with it
PagesOf(open, owner) == { pg \in open : pg.owner = owner }

\* with sync_playwright() as p:
EnterPlaywright ==
    /\ fetch_step = "start"
    /\ fetch_step' = "entered"
    /\ UNCHANGED <<fetcher, session, fetch_total, fetch_no, open_browsers,
                   open_pages, fetch_outcomes>>
    /\ UNCHANGED <<statusVars, splitVars, canonVars, batchVars, pageVars, listVars, csvVars>>

\* browser = p.chromium.launch(headless=True), or its exception
Launch ==
    /\ fetch_step = "entered"
    /\ \/ /\ open_browsers' = open_browsers \cup {fetch_no}
          /\ fetch_step' = "launched"
       \/ /\ fetch_step' = "except"
          /\ UNCHANGED open_browsers
    /\ UNCHANGED <<fetcher, session, fetch_total, fetch_no, open_pages, fetch_outcomes>>
    /\ UNCHANGED <<statusVars, splitVars, canonVars, batchVars, pageVars, listVars, csvVars>>

\* context = browser.new_context(storage_state=...); page = context.new_page(),
\* or page = browser.new_page(), or an exception
NewPage ==
    /\ fetch_step = "launched"
    /\ \/ /\ open_pages' = open_pages \cup
                 {[owner |-> fetch_no, in_context |-> session]}
          /\ fetch_step' = "page"
       \/ /\ fetch_step' = "except"
          /\ UNCHANGED open_pages
    /\ UNCHANGED <<fetcher, session, fetch_total, fetch_no, open_browsers, fetch_outcomes>>
    /\ UNCHANGED <<statusVars, splitVars, canonVars, batchVars, pageVars, listVars, csvVars>>

\* page.goto(team_url); page.wait_for_load_state(...); the extraction and the
\* manager name, or an exception of one of them
LoadAndExtract ==
    /\ fetch_step = "page"
    /\ fetch_step' \in {"extracted", "except"}
    /\ UNCHANGED <<fetcher, session, fetch_total, fetch_no, open_browsers,
                   open_pages, fetch_outcomes>>
    /\ UNCHANGED <<statusVars, splitVars, canonVars, batchVars, pageVars, listVars, csvVars>>

\* browser.close(), or its exception with the browser in either state
CloseBrowser ==
    /\ fetch_step = "extracted"
    /\ \/ /\ open_browsers' = open_browsers \ {fetch_no}
          /\ open_pages' = open_pages \ PagesOf(open_pages, fetch_no)
          /\ fetch_step' \in {"return", "except"}
       \/ /\ fetch_step' = "except"
          /\ UNCHANGED <<open_browsers, open_pages>>
    /\ UNCHANGED <<fetcher, session, fetch_total, fetch_no, fetch_outcomes>>
    /\ UNCHANGED <<statusVars, splitVars, canonVars, batchVars, pageVars, listVars, csvVars>>

\* return team_data, or "except Exception as e" raising RuntimeError
\* (fetch_roster) or the exception again (fetch_team_data): both leave the
\* playwright block
LeaveFetch ==
    /\ fetch_step \in {"return", "except"}
    /\ LET left == PlaywrightExit(open_browsers, fetch_no)
       IN  /\ open_browsers' = left
           /\ open_pages' = { pg \in open_pages : pg.owner \in left }
    /\ fetch_outcomes' = Append(fetch_outcomes,
           [result |-> IF fetch_step = "return" THEN "returned"
                       ELSE IF fetcher = "sources.espn.fetch_roster"
                            THEN "RuntimeError" ELSE "Exception",
            launched |-> fetch_no \in open_browsers])
    /\ fetch_step' = "done"
    /\ UNCHANGED <<fetcher, session, fetch_total, fetch_no>>
    /\ UNCHANGED <<statusVars, splitVars, canonVars, batchVars, pageVars, listVars, csvVars>>

\* the batch goes on to its next team, whatever the fetch did
NextFetch ==
    /\ fetch_step = "done"
    /\ fetch_no < fetch_total
    /\ fetch_no' = fetch_no + 1
    /\ fetch_step' = "start"
    /\ UNCHANGED <<fetcher, session, fetch_total, open_browsers, open_pages,
                   fetch_outcomes>>
    /\ UNCHANGED <<statusVars, splitVars, canonVars, batchVars, pageVars, listVars, csvVars>>

FetchNext ==
    \/ EnterPlaywright
    \/ Launch
    \/ NewPage
    \/ LoadAndExtract
    \/ CloseBrowser
    \/ LeaveFetch
    \/ NextFetch

SpecFetch == FetchInit /\ [][FetchNext]_vars

---------------------------------------------------------------------------
(* The CSV file of an export and its reading: csv.DictWriter as            *)
(* export_team_to_csv uses it, and csv.DictReader over the written text    *)

MaxRecords == 2

Comma  == ","
Quote  == "\""
LineBreaks == {"\n", "\r"}

\* the quote characters of a field doubled
RECURSIVE Doubled(_)
Doubled(t) ==
    IF t = <<>> THEN <<>>
    ELSE (IF Head(t) = Quote THEN <<Quote, Quote>> ELSE <<Head(t)>>) \o Doubled(Tail(t))

\* a field written without quoting
CsvFieldBare(v) == v

\* a field as the writer puts it (QUOTE_MINIMAL, doublequote): quoted when
\* it holds the delimiter, the quote character or a line break, its quote
\* characters doubled
CsvField(v) ==
    IF \E i \in DOMAIN v : v[i] = Comma \/ v[i] = Quote \/ v[i] \in LineBreaks
    THEN <<Quote>> \o Doubled(v) \o <<Quote>>
    ELSE v

\* writer.writerow(cells): the fields joined by commas, then '\r\n'
RECURSIVE CsvJoin(_)
CsvJoin(cells) ==
    IF cells = <<>> THEN <<>>
    ELSE IF Len(cells) = 1 THEN CsvField(cells[1])
    ELSE CsvField(cells[1]) \o <<Comma>> \o CsvJoin(Tail(cells))

CsvLine(cells) == CsvJoin(cells) \o <<"\r", "\n">>

\* the text of a column name: the name as one unit, a name holding no
\* comma, quote or line break
HeaderText(h) == <<h>>

RECURSIVE CsvLines(_)
CsvLines(lines) ==
    IF lines = <<>> THEN <<>> ELSE CsvLine(Head(lines)) \o CsvLines(Tail(lines))

\* writer.writeheader(), then writer.writerow(cleaned_row) for every player
CsvWrite(file) ==
    CsvLine([i \in DOMAIN file.headers |-> HeaderText(file.headers[i])])
    \o CsvLines([r \in DOMAIN file.rows |->
                   [i \in DOMAIN file.headers |-> file.rows[r][file.headers[i]]]])

\* the field is saved to the row; the row is saved as a record
SaveField(r, next)  == [r EXCEPT !.state = next, !.field = <<>>,
                                 !.row = Append(r.row, r.field)]
SaveRecord(r) == [r EXCEPT !.state = "start_record", !.field = <<>>, !.row = <<>>,
                           !.rows = Append(r.rows, Append(r.row, r.field))]
AddChar(r, c, next) == [r EXCEPT !.state = next, !.field = Append(r.field, c)]

\* csv.reader on one character, through the states of the reader; a blank
\* line gives no row
ReaderStep(r, c) ==
    IF r.state \in {"start_record", "start_field"}
    THEN IF c \in LineBreaks
         THEN IF r.state = "start_record" THEN r ELSE SaveRecord(r)
         ELSE IF c = Quote THEN [r EXCEPT !.state = "in_quoted"]
         ELSE IF c = Comma THEN SaveField(r, "start_field")
         ELSE AddChar(r, c, "in_field")
    ELSE IF r.state = "in_field"
    THEN IF c \in LineBreaks THEN SaveRecord(r)
         ELSE IF c = Comma THEN SaveField(r, "start_field")
         ELSE AddChar(r, c, "in_field")
    ELSE IF r.state = "in_quoted"
    THEN IF c = Quote THEN [r EXCEPT !.state = "quote_in_quoted"]
         ELSE AddChar(r, c, "in_quoted")
    ELSE \* a quote seen inside a quoted field
         IF c = Quote THEN AddChar(r, Quote, "in_quoted")
         ELSE IF c = Comma THEN SaveField(r, "start_field")
         ELSE IF c \in LineBreaks THEN SaveRecord(r)
         ELSE AddChar(r, c, "in_field")

\* the reader fed the characters of a text in order
ReaderRun(r, text) ==
    LET after[i \in 0..Len(text)] ==
            IF i = 0 THEN r ELSE ReaderStep(after[i - 1], text[i])
    IN  after[Len(text)]

\* the reader fed one line of the file
ReaderFeed(r, line) ==
    LET half  == Len(line) \div 2
        first == ReaderRun(r, SubSeq(line, 1, half))
    IN  IF first.state = "none" THEN first
        ELSE ReaderRun(first, SubSeq(line, half + 1, Len(line)))

\* the end of the file: a record under way is yielded
ReaderEnd(r) == IF r.state = "start_record" THEN r.rows ELSE SaveRecord(r).rows

\* the next line the file iterator gives (newline=''): up to and with its
\* '\r\n', '\n' or '\r', or the rest of the text
NextLine(text, pos) ==
    LET breaks == { i \in (pos + 1)..Len(text) : text[i] \in LineBreaks }
    IN  IF breaks = {} THEN SubSeq(text, pos + 1, Len(text))
        ELSE LET b == CHOOSE i \in breaks : \A j \in breaks : i <= j
                 e == IF text[b] = "\r" /\ b < Len(text) /\ text[b + 1] = "\n"
                      THEN b + 1 ELSE b
             IN  SubSeq(text, pos + 1, e)

\* csv.DictReader: the first row names the columns, every later row is a
\* dict of them, a short row filled with None
DictReader(rows) ==
    IF rows = <<>> THEN <<>>
    ELSE LET fieldnames == rows[1]
         IN  [r \in 1..(Len(rows) - 1) |->
                [name \in Range(fieldnames) |->
                    LET i == CHOOSE k \in DOMAIN fieldnames : fieldnames[k] = name
                    IN  IF i <= Len(rows[r + 1]) THEN rows[r + 1][i] ELSE None]]

T_padded  == <<" ", "v", " ">>
T_comma   == <<"a", ",", "b">>
T_quoted  == <<"a", "\"", "b">>
T_lines   == <<"a", "\r", "\n", "b">>
T_onlyq   == <<"\"">>
T_tail    == <<"v", "\n">>

\* the values of a record's fields
CellValues == {None, <<>>, <<"v">>, T_padded, T_comma, T_quoted, T_lines, T_onlyq, T_tail}

\* a canonical record: its name, its team, and a Notes key that may be missing
Record(name, team, notes) ==
    MkDict({ <<"Player Name", name>>, <<"Team", team>>, <<"Notes", notes>> })

Records ==
    { Record(name, T_KC, Absent) : name \in CellValues }
    \cup { Record(T_comma, T_comma, notes) : notes \in {None, T_quoted, T_lines, T_padded} }

\* the team_data of the export: one to MaxRecords records of a team
CsvTeams ==
    { [is_none |-> FALSE, source |-> "", manager_name |-> m, players |-> ps] :
        m \in {None, T_comma},
        ps \in UNION { [1..n -> Records] : n \in 1..MaxRecords } }

CsvInit ==
    /\ csv_team \in CsvTeams
    /\ csv_text = <<>>
    /\ csv_reader = ReaderStart
    /\ csv_pos = 0
    /\ csv_read = <<>>
    /\ csv_pc = "start"
    /\ StatusIdle /\ SplitIdle /\ CanonIdle /\ BatchIdle /\ PageIdle /\ ListIdle /\ FetchIdle

\* the team id of the exported team
CsvTeamId == TeamIdPool[1]

\* export_team_to_csv(team_id, team_data): the text of the file it writes
CsvExport ==
    /\ csv_pc = "start"
    /\ LET e == export_team_to_csv(CsvTeamId,
                     [raised |-> "none", outcome |-> "data", data |-> csv_team],
                     None, "ok")
       IN  csv_text' = CsvWrite(e.file)
    /\ csv_pc' = "written"
    /\ UNCHANGED <<csv_team, csv_read, csv_reader, csv_pos>>
    /\ UNCHANGED <<statusVars, splitVars, canonVars, batchVars, pageVars, listVars, fetchVars>>

\* the file read back, list(csv.DictReader(open(path, newline=''))): the
\* reader takes the next line of the file
CsvReadLine ==
    /\ csv_pc = "written"
    /\ csv_pos < Len(csv_text)
    /\ LET line == NextLine(csv_text, csv_pos)
       IN  /\ csv_reader' = ReaderFeed(csv_reader, line)
           /\ csv_pos' = csv_pos + Len(line)
    /\ UNCHANGED <<csv_team, csv_text, csv_read, csv_pc>>
    /\ UNCHANGED <<statusVars, splitVars, canonVars, batchVars, pageVars, listVars, fetchVars>>

\* the file has no more lines: the rows as dicts
CsvReadEnd ==
    /\ csv_pc = "written"
    /\ csv_pos = Len(csv_text)
    /\ csv_read' = DictReader(ReaderEnd(csv_reader))
    /\ csv_pc' = "read"
    /\ UNCHANGED <<csv_team, csv_text, csv_reader, csv_pos>>
    /\ UNCHANGED <<statusVars, splitVars, canonVars, batchVars, pageVars, listVars, fetchVars>>

CsvNext == CsvExport \/ CsvReadLine \/ CsvReadEnd

SpecCsv == CsvInit /\ [][CsvNext]_vars

---------------------------------------------------------------------------
(* Claims about the unified export                                         *)

\* the teams of a batch whose page fetch gave at least one player
Fetched(e) == e.fetch = "data" /\ e.players /= <<>>

\* <<Team_ID, Manager, Player Name>> of the page rows of the fetched teams, in order
RECURSIVE ExpectedRows(_)
ExpectedRows(log) ==
    IF log = <<>> THEN <<>>
    ELSE (IF Fetched(Head(log))
          THEN [i \in DOMAIN Head(log).players |->
                  <<Head(log).team, PageManager(Head(log).team),
                    Head(log).players[i]["Player Name"]>>]
          ELSE <<>>)
         \o ExpectedRows(Tail(log))

WrittenRows(file) ==
    [i \in DOMAIN file.rows |->
        <<file.rows[i]["Team_ID"], file.rows[i]["Manager"],
          file.rows[i]["Player Name"]>>]

\* the ids of the teams whose fetch raised or gave no player, in order
RECURSIVE ExpectedFailed(_)
ExpectedFailed(log) ==
    IF log = <<>> THEN <<>>
    ELSE (IF Fetched(Head(log)) THEN <<>> ELSE <<Head(log).team>>)
         \o ExpectedFailed(Tail(log))

\* C8: the unified export skips a team whose fetch raises or yields no
\* players, records its id in the failed list and goes on: every team id is
\* attempted, the rows written are exactly the rows of the other teams, in
\* order, each tagged with its own Manager and Team_ID, and the failed list
\* holds exactly the skipped ids.
C8_UnifiedExportSkipsFailedTeams ==
    (op = "export_all_teams_to_csv" /\ pc = "done" /\ team_ids /= <<>>) =>
        /\ [i \in DOMAIN attempted |-> attempted[i].team] = team_ids
        /\ failed_teams = ExpectedFailed(attempted)
        /\ result.kind = "path" =>
              /\ Len(files) = 1
              /\ WrittenRows(files[1]) = ExpectedRows(attempted)
        /\ result.kind = "None" => ExpectedRows(attempted) = <<>> /\ files = <<>>

\* C8 witness (scenario E): three teams, the fetch of the second raises, the
\* file holds the rows of the first and the third, the failed list the second
C8_Witness ==
    /\ op = "export_all_teams_to_csv" /\ pc = "done" /\ result.kind = "path"
    /\ Len(team_ids) = 3
    /\ attempted[2].fetch = "raise"
    /\ Fetched(attempted[1]) /\ Fetched(attempted[3])
    /\ failed_teams = <<team_ids[2]>>
    /\ {files[1].rows[i]["Team_ID"] : i \in DOMAIN files[1].rows}
          = {team_ids[1], team_ids[3]}

---------------------------------------------------------------------------
(* Claims about source names                                               *)

\* C6: a dispatcher given a source name it does not know ("sleeper") fails
\* with a configuration error: sources.fetch_roster, sources.fetch_teams and
\* transformers.to_canonical_roster end with ConfigurationError raised.
C6_UnknownSourceIsConfigurationError ==
    /\ (op \in {"sources.fetch_roster", "sources.fetch_teams"}
          /\ source \notin KnownSources /\ pc /= "start")
       => (pc = "raised" /\ raised = "ConfigurationError")
    /\ (canon_outcome /= "pending" /\ canon_source \notin KnownSources)
       => canon_outcome = "ConfigurationError"

\* C7: the unknown-source error of the dispatcher reaches the caller of
\* get_roster, export_all_teams_to_csv and get_players: with a source name
\* that is not known, each of the three ends with an exception raised.
C7_UnknownSourcePropagates ==
    (op \in {"get_roster", "export_all_teams_to_csv", "get_players"}
       /\ source \notin KnownSources
       /\ (op = "export_all_teams_to_csv" => team_ids /= <<>>)
       /\ pc \notin {"start", "loop", "write"})
    => (pc = "raised" /\ raised /= "none")

---------------------------------------------------------------------------
(* Claims about batches of teams                                            *)

\* whether the processing of one team fails, by operation
TeamFails(o, e) ==
    IF o = "dump_teams_command"
    THEN e.fetch /= "data" \/ e.players = <<>> \/ e.io /= "ok"
    ELSE e.fetch = "raise"

\* the batches named by C9
TeamBatches == {"dump_teams_command", "get_multiple_rosters", "modules.dump_teams_command"}

\* C9: dumping several teams (dump_teams_command, get_multiple_rosters) goes
\* through the list in order and a team whose fetch or export fails does not
\* stop the batch: when the operation has ended, every team of the list has
\* been attempted and the operation has not ended with the exception of a team.
C9_BatchContinuesPastFailures ==
    (op \in TeamBatches /\ pc \in {"done", "raised"})
    => /\ [i \in DOMAIN attempted |-> attempted[i].team] = team_ids
       /\ pc = "done"

\* what the batches do instead: the teams are taken in list order and the
\* first team that fails ends the batch with its exception, no later team
\* is attempted and no list of failed ids is kept
FirstFailureEndsBatch ==
    op \in TeamBatches =>
        /\ [i \in DOMAIN attempted |-> attempted[i].team]
              = SubSeq(team_ids, 1, Len(attempted))
        /\ \A i \in DOMAIN attempted :
              TeamFails(op, attempted[i]) =>
                  /\ i = Len(attempted)
                  /\ pc = "raised"
                  /\ raised /= "none"
        /\ failed_teams = <<>>

---------------------------------------------------------------------------
(* Claims about the row index of the status inference                       *)

\* the 0-based index in document order of the k-th data row: a table
\* without tbody has its header row among its rows
DocumentIndex(doc, k) == IF doc.structure = "no_tbody" THEN k ELSE k - 1

\* the number of rows of the table
TableRows(doc) ==
    IF doc.structure = "no_tbody" THEN Len(doc.rows) + 1 ELSE Len(doc.rows)

\* the accepted data rows, in document order
AcceptedRows(doc) ==
    SelectSeq([k \in DOMAIN doc.rows |-> k],
              LAMBDA k : modules_accepts(doc.rows[k], doc.week3))

\* C26: the row index the status inference is given for a row is the row's
\* 0-based index in document order: the rows rejected before it (header,
\* totals, sentinel rows) count.
C26_StatusByDocumentIndex ==
    extractor = "modules" /\ extracted.outcome = "data" =>
       LET kept == AcceptedRows(document)
       IN  /\ Len(extracted.players) = Len(kept)
           /\ \A n \in DOMAIN kept :
                 extracted.players[n]["Roster Status"] =
                    determine_player_status(
                       modules_player_data(document.rows[kept[n]], document.week3),
                       DocumentIndex(document, kept[n]),
                       TableRows(document))

---------------------------------------------------------------------------
(* Claims about the consumers of a roster result                            *)

\* a roster result that is a dict whose players list is empty or absent
EmptyRoster(e) == e.fetch = "data" /\ e.players = <<>>

\* something of the given kinds was printed about the team
PrintedAbout(team_id, kinds) ==
    \E i \in DOMAIN displayed :
        displayed[i].team = team_id /\ displayed[i].kind \in kinds

\* C17: a roster result with an empty or absent players list is no data to
\* every consumer: the export of one team writes no file and returns None,
\* the roster table is not printed, the unified export records the team as
\* failed, and the dump command ends with a DataValidationError (the
\* command of modules.dump_teams, which raises nothing: without reporting
\* the team as completed).
C17_EmptyRosterIsNoData ==
    \A i \in DOMAIN attempted :
        LET e == attempted[i]
        IN  EmptyRoster(e) =>
              /\ op \in ExportOps =>
                    files = <<>> /\ pc = "done" /\ result = ReturnNone
              /\ op \in DisplayOps => ~PrintedAbout(e.team, {"table"})
              /\ op = "export_all_teams_to_csv" =>
                    /\ e.team \in Range(failed_teams)
                    /\ \A f \in DOMAIN files : \A r \in DOMAIN files[f].rows :
                          files[f].rows[r]["Team_ID"] /= e.team
              /\ op = "dump_teams_command" /\ ~flags.unified_csv =>
                    /\ pc = "raised" /\ raised = "DataValidationError"
                    /\ ~PrintedAbout(e.team, {"table"})
              /\ op = "dump_teams_command" /\ flags.unified_csv =>
                    e.team \in Range(failed_teams)
              /\ op = "modules.dump_teams_command" =>
                    ~PrintedAbout(e.team, {"table", "completed", "exported"})

---------------------------------------------------------------------------
(* Claims about the column lists                                            *)

\* the place of a column in a list that holds it
Position(list, x) == CHOOSE i \in DOMAIN list : list[i] = x

\* the columns of the preferred list come first and in its order, the other
\* columns follow in alphabetical order, and none of them comes twice
OrderedBy(headers, preferred) ==
    \A i, j \in DOMAIN headers :
        i < j =>
           IF headers[i] \in Range(preferred)
           THEN headers[j] \in Range(preferred) =>
                   Position(preferred, headers[i]) < Position(preferred, headers[j])
           ELSE /\ headers[j] \notin Range(preferred)
                /\ Position(SortedKeys, headers[i]) < Position(SortedKeys, headers[j])

\* the columns observed in the records, the two internal ones left out
Observed(players) ==
    UNION {DOMAIN players[i] : i \in DOMAIN players} \ {"Action", "Player_Info"}

\* the header lists of the roster tables printed so far
TableLists ==
    {displayed[i].headers : i \in {k \in DOMAIN displayed : displayed[k].kind = "table"}}

\* the header lists of the files written so far
FileLists == {files[i].headers : i \in DOMAIN files}

\* every observed column, and no other, is a column of the file or table
ColumnsAreObserved ==
    /\ op \in ExportOps =>
          \A h \in FileLists :
              Range(h) = Observed(attempted[1].players) \cup {"Manager", "Team_ID"}
    /\ op \in DisplayOps \cup {"modules.dump_teams_command"} =>
          \A i \in DOMAIN displayed :
              displayed[i].kind = "table" =>
                 \E k \in DOMAIN attempted :
                    /\ attempted[k].team = displayed[i].team
                    /\ Range(displayed[i].headers) = Observed(attempted[k].players)
    /\ op = "export_all_teams_to_csv" =>
          \A h \in FileLists : Range(h) = Observed(all_players)

\* the preferred list of the roster table of the running operation
TablePreferred ==
    IF op \in {"modules.display_team_data", "modules.dump_teams_command"}
    THEN modules_preferred_columns
    ELSE preferred_columns

\* C18 as stated: one fixed preferred list (the one of the exports) orders
\* the column list of every export and of every roster table: its columns
\* that occur come first in its order, the other observed columns follow
\* alphabetically, 'Action' and 'Player_Info' never appear, no column twice.
C18_OnePreferredListForAll ==
    /\ \A h \in FileLists \cup TableLists :
          /\ OrderedBy(h, csv_columns)
          /\ "Action" \notin Range(h) /\ "Player_Info" \notin Range(h)
    /\ ColumnsAreObserved

\* C18 (amended): each export and each roster table orders its columns by
\* its own fixed preferred list (the exports by csv_columns, with Manager
\* and Team_ID always among the columns; the roster tables by the
\* preferred_columns of their display function): the preferred columns
\* that occur come first in that order, the other observed columns follow
\* alphabetically, 'Action' and 'Player_Info' never appear, no column twice.
C18_ColumnsOrderedByOwnPreferredList ==
    /\ \A h \in FileLists :
          /\ OrderedBy(h, csv_columns)
          /\ "Action" \notin Range(h) /\ "Player_Info" \notin Range(h)
    /\ \A h \in TableLists :
          /\ OrderedBy(h, TablePreferred)
          /\ "Action" \notin Range(h) /\ "Player_Info" \notin Range(h)
    /\ ColumnsAreObserved

\* a roster table made from a record that carries 'Action', two columns of
\* the table's preferred list and one column outside it
C18_Witness ==
    /\ op = "display_roster_table" /\ pc = "done"
    /\ attempted[1].players = <<Player({"Action", "Slot", "FPTS", "Notes"})>>
    /\ TableLists = {<<"Player Name", "Team", "Slot", "FPTS", "Notes">>}

\* C19: in every CSV file written by export_team_to_csv or
\* export_all_teams_to_csv the first column is Manager and the second is
\* Team_ID, whether the player records carry neither, one or both keys.
C19_ManagerAndTeamIdFirst ==
    \A h \in FileLists :
        Len(h) >= 2 /\ h[1] = "Manager" /\ h[2] = "Team_ID"

\* a file exported from a record that carries Team_ID and not Manager
C19_Witness ==
    /\ op = "export_team_to_csv" /\ pc = "done"
    /\ attempted[1].players = <<Player({"Team_ID", "Notes"})>>
    /\ FileLists = {<<"Manager", "Team_ID", "Player Name", "Team", "Notes">>}

---------------------------------------------------------------------------
(* Claims about failures of the file write                                  *)

\* the operations whose log tells how the write of a team's file went
TeamExports ==
    ExportOps \cup {"dump_teams_command", "modules.dump_teams_command"}

\* C20: every CSV export reports a failure to open or write the file to its
\* caller as a file-operation error: the operation ends with
\* FileOperationError, it does not return None or a path, the command does
\* not report the team as done, and a unified export that ends without an
\* error after collecting players has written its file.
C20_WriteFailureIsFileOperationError ==
    /\ op \in TeamExports =>
          \A i \in DOMAIN attempted :
              LET e == attempted[i]
              IN  Fetched(e) /\ e.io /= "ok" =>
                     /\ pc = "raised" /\ raised = "FileOperationError"
                     /\ result = NoResult
                     /\ ~PrintedAbout(e.team, {"completed", "exported"})
    /\ op = "export_all_teams_to_csv" /\ pc = "done" /\ all_players /= <<>> =>
          files /= <<>>

---------------------------------------------------------------------------
(* Claims about the output path                                             *)

\* the default path of one team's export
TeamDefault(team_id) == T_TeamPrefix \o team_id \o T_TeamSuffix

\* the path the rule gives: the default without a filename; the filename
\* itself when it is absolute, starts with './' or '../' or with 'output/';
\* 'output/' followed by the filename otherwise
RuledPath(name, default) ==
    IF name = None \/ name = <<>> THEN default
    ELSE IF \E prefix \in { <<"/">>, <<".","/">>, <<".",".","/">>, T_OutputDir } :
               StartsWith(name, prefix)
    THEN name
    ELSE T_OutputDir \o name

\* C22: every file an export writes is at the path of the rule (the default
\* output/team_{id}_roster.csv or output/league_unified_roster.csv without a
\* filename, the filename unchanged when absolute, './', '../' or 'output/',
\* else output/ + filename), and an export to the path an export returned
\* writes to that same path.
C22_OutputPathRule ==
    /\ op \in ExportOps /\ files /= <<>> =>
          /\ files[1].name = RuledPath(filename, TeamDefault(team_ids[1]))
          /\ \A i \in DOMAIN files : files[i].name = files[1].name
    /\ op \in {"dump_teams_command", "modules.dump_teams_command"}
          /\ ~flags.unified_csv =>
          \A i \in DOMAIN files :
              \E k \in DOMAIN team_ids :
                  files[i].name = RuledPath(filename, TeamDefault(team_ids[k]))
    /\ op = "export_all_teams_to_csv" =>
          \A i \in DOMAIN files :
              files[i].name = RuledPath(filename, T_UnifiedPath)
    /\ op = "dump_teams_command" /\ flags.unified_csv =>
          \A i \in DOMAIN files :
              files[i].name = RuledPath(UnifiedOutput(filename), T_UnifiedPath)

\* a relative filename exported under output/, and exported again to the
\* returned path
C22_Witness ==
    /\ op = "export_team_to_csv" /\ pc = "again"
    /\ filename = T_xcsv
    /\ Len(files) = 2
    /\ files[1].name = T_OutputDir \o T_xcsv
    /\ files[2].name = T_OutputDir \o T_xcsv

---------------------------------------------------------------------------
(* Claims about the secondary source and the command's flags                *)

\* C23: for the source 'yahoo', fetch_roster and fetch_teams never raise
\* and return a falsy result (None, an empty list), and get_roster returns
\* None without calling the canonicalizer.
C23_YahooDegradesWithoutRaising ==
    source = "yahoo" /\ op \in {"sources.fetch_roster", "sources.fetch_teams",
                                "get_roster"} =>
       /\ pc /= "raised" /\ raised = "none"
       /\ pc = "done" =>
             /\ op \in {"sources.fetch_roster", "get_roster"} => result = ReturnNone
             /\ op = "sources.fetch_teams" => result = ReturnList(<<>>)
             /\ op = "get_roster" => calls = <<"sources.fetch_roster">>

\* get_roster for 'yahoo' has returned
C23_Witness ==
    /\ source = "yahoo" /\ op = "get_roster" /\ pc = "done"
    /\ result = ReturnNone
    /\ calls = <<"sources.fetch_roster">>

\* C25: dump-teams with --unified-csv and without --all does nothing but
\* print the warning: no team is fetched and no file is written.
C25_UnifiedWithoutAllDoesNothing ==
    op = "dump_teams_command" /\ flags.unified_csv /\ ~flags.all =>
       /\ attempted = <<>> /\ calls = <<>> /\ files = <<>>
       /\ all_players = <<>> /\ failed_teams = <<>> /\ raised = "none"
       /\ pc \in {"start", "done"}
       /\ pc = "done" => displayed = <<Message("unified_requires_all")>>

\* the command has returned after the warning, with team ids given
C25_Witness ==
    /\ op = "dump_teams_command" /\ flags.unified_csv /\ ~flags.all
    /\ Len(team_ids) >= 2
    /\ pc = "done"
    /\ displayed = <<Message("unified_requires_all")>>

---------------------------------------------------------------------------
(* Claims about the files of a batch                                        *)

\* what is at a path once the command is over: the last file written there
LastWrite(i) == \A j \in DOMAIN files : j > i => files[j].name /= files[i].name

\* the rows of the team are in a file that is there once the command is over
RowsKept(team_id) ==
    \E i \in DOMAIN files :
        /\ LastWrite(i)
        /\ \E r \in DOMAIN files[i].rows : files[i].rows[r]["Team_ID"] = team_id

\* C28: after dump_teams_command has completed without error over two or
\* more distinct team ids, the rows exported for every team are in the files
\* the command has written, without --output and with one --output path.
C28_NoTeamExportOverwritten ==
    /\ op = "dump_teams_command" /\ ~flags.unified_csv
    /\ pc = "done" /\ Len(team_ids) >= 2
    => \A k \in DOMAIN team_ids : RowsKept(team_ids[k])

\* C29: export_all_teams_to_csv opens the output file only after every team
\* id of the list has been attempted, and with an empty list or no player
\* collected it returns None and writes no file.
C29_UnifiedFileWrittenLast ==
    op = "export_all_teams_to_csv" =>
       /\ files /= <<>> =>
             /\ Len(attempted) = Len(team_ids)
             /\ \A k \in DOMAIN team_ids : attempted[k].team = team_ids[k]
             /\ pc = "done" /\ Len(files) = 1
       /\ pc = "done" /\ (team_ids = <<>> \/ all_players = <<>>) =>
             files = <<>> /\ result = ReturnNone /\ raised = "none"

\* a unified export over three teams, the middle one without players, has
\* written its file
C29_Witness ==
    /\ op = "export_all_teams_to_csv" /\ pc = "done"
    /\ Len(team_ids) = 3 /\ Len(attempted) = 3
    /\ team_ids[2] \in Range(failed_teams)
    /\ Len(files) = 1


---------------------------------------------------------------------------
(* Claims about the limit of the free-agent listing                        *)

\* the rows of the fetched page that pass the position, status and team
\* options of the command
Passing ==
    SelectSeq(agents_page.players, LAMBDA p :
        /\ Truthy(args.position) => Upper(p["position"]) \in Wanted(args.position)
        /\ Truthy(args.status) => Contains(Upper(p["status"]), Upper(args.status))
        /\ Truthy(args.team) => Upper(p["team"]) \in Wanted(args.team))

\* the projection of a player, a missing one counting as 0
Projection(p) ==
    IF p["projected_points"].none THEN 0 ELSE p["projected_points"].value

\* list holds the first n players of pool ordered by projection descending
FirstByProjection(list, pool, n) ==
    /\ Len(list) = (IF n < Len(pool) THEN n ELSE Len(pool))
    /\ \A i, j \in DOMAIN list : i < j =>
           list[i] /= list[j] /\ Projection(list[i]) >= Projection(list[j])
    /\ Range(list) \subseteq Range(pool)
    /\ \A p \in Range(pool) \ Range(list) :
           \A q \in Range(list) : Projection(q) >= Projection(p)

\* the command has fetched a page with rows and filtered it
Filtered ==
    /\ list_pc \in {"no_players", "shown"}
    /\ agents_page.fetch = "data" /\ agents_page.kind = "list"
    /\ agents_page.players /= <<>>

\* C30: when a limit L >= 0 is given for the free-agent listing, the
\* filtered result has at most L players, and they are the first L players
\* of the list that passes the position, status and team filters ordered by
\* projected points descending, a missing projection counting as 0.
C30_LimitKeepsFirstByProjection ==
    Filtered /\ ~args.limit.none =>
        /\ Len(listed) <= args.limit.value
        /\ FirstByProjection(listed, Passing, args.limit.value)


---------------------------------------------------------------------------
(* Claims about the browser of a roster fetch                              *)

---------------------------------------------------------------------------
(* Claims about the CSV round trip                                         *)

\* the value a record shows in a column: its own value trimmed, the empty
\* string for None or a missing key; Manager and Team_ID are the export's
DeclaredValue(record, column) ==
    IF column = "Manager" THEN Strip(ManagerFor(csv_team, CsvTeamId))
    ELSE IF column = "Team_ID" THEN Strip(CsvTeamId)
    ELSE LET value == Get(record, column, None)
         IN  IF value = None THEN <<>> ELSE Strip(value)

\* C21: exporting canonical records to CSV and reading the file back yields,
\* for every record and every declared column, the record's value with the
\* surrounding whitespace trimmed (None and missing values as the empty
\* string), in the same row order.
C21_CsvRoundTrip ==
    csv_pc = "read" =>
        /\ Len(csv_read) = Len(csv_team.players)
        /\ \A i \in DOMAIN csv_team.players :
           \A column \in Range(ExportHeaders(csv_team.players)) :
              /\ HeaderText(column) \in DOMAIN csv_read[i]
              /\ csv_read[i][HeaderText(column)] = DeclaredValue(csv_team.players[i], column)

\* two records read back, the first with a comma in its name and a quote in
\* its notes, the second with a line break in its name and no notes
C21_Witness ==
    /\ csv_pc = "read"
    /\ Len(csv_team.players) = 2
    /\ csv_team.players[1]["Player Name"] = T_comma
    /\ Get(csv_team.players[1], "Notes", Absent) = T_quoted
    /\ csv_team.players[2]["Player Name"] = T_lines
    /\ "Notes" \notin DOMAIN csv_team.players[2]
    /\ Len(csv_read) = 2

=============================================================================
